---------------------------- MODULE Spec2Model ----------------------------
(***************************************************************************)
(* A model of the workshop's AsyncQueue (06-async-queue): a priority       *)
(* backlog, a bounded number of running tasks, pause/start, clear and the  *)
(* onEmpty drain callbacks.                                                *)
(*                                                                         *)
(* JavaScript runs every handler to completion, so each public method is   *)
(* one action.  The promise chain that _process builds for a dispatched    *)
(* entry runs in later microtasks; its three observable steps are the      *)
(* actions RunTask (entry.task() is invoked), SettleTask (entry.resolve or *)
(* entry.reject is invoked) and Finalize (the finally callback).  User     *)
(* code that runs between two of these steps (task bodies, continuations   *)
(* of completion handles, the harness) may call any public method, which   *)
(* is the interleaving of the method actions with the microtask actions.   *)
(*                                                                         *)
(* _checkEmpty invokes user callbacks synchronously from inside a handler. *)
(* The callbacks may call back into the queue, so the forEach is modelled  *)
(* as a call stack of frames: NotifyNext invokes the next callback of the  *)
(* innermost forEach, the method actions may then run as calls made by the *)
(* body of that callback, and CallbackReturn returns from it.  Microtasks  *)
(* never run while a frame is on the stack.  Drain callbacks are taken to *)
(* return normally.                                                        *)
(***************************************************************************)
EXTENDS Integers, Sequences, FiniteSets, TLC

\* ------------------------------------------------------------------ bounds
MaxTasks == 3
MaxCallbacks == 2
MaxConcurrency == 2
MaxCapacity == 3
MaxListeners == 2
MaxOnce == 2
MaxDepth == 2
MaxProduced == 4
MaxTake == 2
MaxSubs == 2
MaxEmit == 3
MaxDelay == 2
MaxArm == 3
MaxMemo == 2
MaxTtl == 2
MaxClock == 3
MaxFn == 3
MaxDeps == 1
MaxMade == 4
MaxResolve == 3

TaskIds == 1..MaxTasks
CallbackIds == 1..MaxCallbacks

\* An optional argument is <<>> when omitted and <<v>> when given.
Omitted == <<>>
Given(v) == <<v>>

\* What add() may be handed as its task: a function that returns a value or
\* a promise that fulfils, one that returns a rejecting promise, one that
\* throws synchronously, and a value that is not callable.
TaskKinds == {"resolves", "rejects", "throws", "notCallable"}
\* The two kinds the general specification draws from.
BasicKinds == {"resolves", "rejects"}
\* options.priority as passed to add(): the general and the wide universe.
PriorityOpts == {Omitted, Given(2)}
WidePriorityOpts == {Given(-1), Given(0), Given(1), Given(3), Given(5)}
\* options.concurrency and options.autoStart as passed to the constructor.
ConcurrencyOpts == {Omitted} \cup {Given(n) : n \in 0..MaxConcurrency}
AutoStartOpts == {Omitted, Given(TRUE), Given(FALSE)}

\* The keys and values handed to the cache: one key more than it can hold.
CacheKeys == 1..(MaxCapacity + 1)
CacheValues == {"x", "y"}
\* The capacity handed to the constructor of the cache.
Capacities == 0..MaxCapacity

\* The event names and listener functions handed to the emitter, and the
\* wrapper functions its once() creates.
EventNames == {"a", "b"}
ListenerFns == {"f", "g"}
WrapperIds == 1..MaxOnce

\* The states of a machine configuration and the event names handed to
\* it: "go" and "back" are the keys a state's `on` may have, "toString" is
\* a key no `on` has but every object inherits from Object.prototype.
MachineStates == {"idle", "busy"}
OwnEvents == {"go", "back"}
InheritedNames == {"toString"}
MachineEvents == OwnEvents \cup InheritedNames
\* The rule a state's `on` holds for "go": none, a string, or an object
\* {target}, {target, action}, {target, guard}, {target, guard, action}.
RuleShapes == {"none", "string", "plain", "action", "guarded", "guardedAction"}

\* What subscribe() is handed: an observer object with the three callbacks,
\* or a function, which becomes {next: observer}.
ObserverKinds == {"object", "function"}
\* What the subscribe function of the Observable returns as its cleanup.
CleanupKinds == {"function", "undefined"}

\* The subscriptions made to one take() observable.
TakerIds == 1..MaxSubs

\* The ids setTimeout hands out, and the arguments of a call.
TimerIds == 1..MaxArm
CallArgs == {"p", "q"}

\* The keys keyGenerator makes of the arguments of a call.
MemoKeys == 1..(MaxMemo + 1)

\* The names services are registered under, the dependency lists a
\* registration declares, and what a factory returns: a new object, or a
\* falsy value such as 0 (the instance Falsy).
ServiceNames == {"a", "b"}
DependencyLists ==
    UNION {[1..len -> ServiceNames] : len \in 0..MaxDeps}
FactoryYields == {"object", "falsy"}
Falsy == -1

VARIABLES
    concurrency,     \* this.concurrency
    autoStart,       \* this.autoStart
    queue,           \* this.queue: sequence of entries [id, task, priority]
    running,         \* this.running
    paused,          \* this.paused
    emptyCallbacks,  \* this.emptyCallbacks: sequence of callback ids
    handle,          \* the promise add() returned, per task id
    settles,         \* how often entry.resolve / entry.reject was invoked
    stage,           \* where the promise chain of a dispatched entry is
    captured,        \* entry.task as captured by that chain's closures
    stack,           \* call stack of _checkEmpty's forEach frames
    given,           \* history: options.priority as passed, per backlog entry
    order,           \* history: the dispatched entries, in dispatch order
    fired,           \* history: how often each drain callback was invoked
    regAt,           \* history: the queue's condition when onEmpty registered it
    onlyAdds,        \* history: no method other than add() was called so far
    sinceStart       \* history: the entries waiting since the last start() with
                     \* no pause() or clear() after it

vars == <<concurrency, autoStart, queue, running, paused, emptyCallbacks,
          handle, settles, stage, captured, stack, given, order, fired, regAt,
          onlyAdds, sinceStart>>

VARIABLES
    lastRead         \* what the last getter read of the queue returned:
                     \* <<>> before the first read, else <<getter, value>>

\* ---- LRUCache (10-lru-cache)
VARIABLES
    capacity,        \* this.capacity
    cache,           \* this.cache: the Map, as the sequence of its entries
                     \* [key, value] in insertion order
    recency,         \* history: the rank of each cached key by its last use
                     \* (1 = least recently used), 0 for a key not cached
    cacheLast        \* history: the last call and what it returned

cacheVars == <<capacity, cache, recency, cacheLast>>

\* ---- EventEmitter (08-event-emitter)
VARIABLES
    events,          \* this.events: per event name whether the Map has the
                     \* key, and its array of listeners [fn, wrapper]
                     \* (wrapper 0 for a function registered by on())
    emitStack,       \* the emit() calls in progress: frames of
                     \* [event, todo, inBody, had]
    wrappers,        \* how many wrapper functions once() has created
    invoked,         \* history: how often the listener of each once()
                     \* wrapper was invoked
    emitterLast      \* history: the last call or step and what it returned

emitterVars == <<events, emitStack, wrappers, invoked, emitterLast>>

\* ---- StateMachine (16-state-machine)
VARIABLES
    rules,           \* this.config.states: per state the shape of its rule
                     \* for "go"
    currentState,    \* this.currentState
    context,         \* this.context: the flag the guards read and the
                     \* actions write
    machineLast      \* history: the last call and what it returned

machineVars == <<rules, currentState, context, machineLast>>

\* ---- Observable (09-observable), one subscription
VARIABLES
    observer,        \* the kind of observer handed to subscribe()
    subscription,    \* "none" before subscribe(), "subscribing" while the
                     \* subscribe function runs, "returned" after it
    completed,       \* the closure variable `completed`
    errored,         \* the closure variable `errored`
    cleanup,         \* the closure variable `cleanup`: "undefined" or
                     \* "function"
    callStack,       \* the call stack of observer callbacks and cleanups
                     \* that are being executed
    produced,        \* how many subscriber methods the producer has called
    delivered,       \* history: how often each observer callback was
                     \* invoked
    dropped,         \* history: how many producer calls were ignored
    cleanups,        \* history: how often the cleanup was invoked
    unsubscribed     \* history: unsubscribe() has been called

observableVars == <<observer, subscription, completed, errored, cleanup,
                    callStack, produced, delivered, dropped, cleanups,
                    unsubscribed>>

\* ---- Observable.take (09-observable): the subscriptions to one
\* source.take(count) observable
VARIABLES
    takeCount,       \* the parameter `count` of take()
    step,            \* the variable `step` of the take() call
    takers           \* per subscription to the take observable: how far
                     \* subscribe() is, the closed flags of the inner
                     \* subscription (to the source) and of the outer one,
                     \* and the history of what the source sent and what
                     \* the observer got

takeVars == <<takeCount, step, takers>>

\* ---- debounce (02-debounce-throttle)
VARIABLES
    delay,           \* the parameter `delay`, in ticks of the clock
    timeoutId,       \* the closure variable `timeoutId`; 0 is undefined
    timers,          \* the timers of the environment, by id: whether it
                     \* is pending, the ticks left, the captured args
    sinceCall,       \* history: ticks since the most recent call, capped
    lastArgs,        \* history: the args of the most recent call
    quiet,           \* history: "never" called, "called" and nothing
                     \* since, "cancelled" or "invoked" since that call
    invocations      \* history: the args of every invocation of fn

debounceVars == <<delay, timeoutId, timers, sinceCall, lastArgs, quiet,
                  invocations>>

\* ---- memoize (04-memoization)
VARIABLES
    maxSize,         \* options.maxSize
    ttl,             \* options.ttl, in ticks of the clock
    memo,            \* the Map `cache`: entries key -> {value, timestamp}
                     \* in insertion order
    now,             \* Date.now()
    memoStack,       \* the calls of the memoized function whose fn is
                     \* running: the key and the value fn will return
    fnCalls,         \* history: how often fn was invoked
    memoLast         \* history: the last call that returned, its value
                     \* and whether it invoked fn

memoVars == <<maxSize, ttl, memo, now, memoStack, fnCalls, memoLast>>

\* ---- Container (15-dependency-injection)
VARIABLES
    registry,        \* name -> registration: its type ("none" when the
                     \* Map has no such key), dependencies, singleton
                     \* option, instance (0 is null, Falsy a falsy value,
                     \* 1, 2, ... are objects) and what its factory yields
    ids,             \* how many objects have been created
    made,            \* history: per name, how often the class or factory
                     \* was invoked since it was registered
    returned,        \* history: per name, the values resolve returned
                     \* since it was registered
    resolved,        \* history: how many resolve() calls were made
    containerLast    \* history: the last resolve(): name, outcome, value

containerVars == <<registry, ids, made, returned, resolved, containerLast>>

\* The variables of the other exercises of the workshop, which share
\* nothing with the queue.
beyondQueue == <<cacheVars, emitterVars, machineVars, observableVars,
    takeVars,
    debounceVars,
    memoVars,
    containerVars>>

\* Everything a method or a microtask of the queue leaves alone.
elsewhere == <<lastRead, beyondQueue>>

\* The other exercises before anything is constructed or called.
CacheAtRest ==
    /\ capacity = 0
    /\ cache = <<>>
    /\ recency = [k \in CacheKeys |-> 0]
    /\ cacheLast = <<>>

EmitterAtRest ==
    /\ events = [e \in EventNames |-> [has |-> FALSE, list |-> <<>>]]
    /\ emitStack = <<>>
    /\ wrappers = 0
    /\ invoked = [w \in WrapperIds |-> 0]
    /\ emitterLast = <<>>

MachineAtRest ==
    /\ rules = [st \in MachineStates |-> "none"]
    /\ currentState = "idle"
    /\ context = [allow |-> FALSE]
    /\ machineLast = <<>>

ObservableAtRest ==
    /\ observer = "object"
    /\ subscription = "none"
    /\ completed = FALSE
    /\ errored = FALSE
    /\ cleanup = "undefined"
    /\ callStack = <<>>
    /\ produced = 0
    /\ delivered = [next |-> 0, error |-> 0, complete |-> 0]
    /\ dropped = 0
    /\ cleanups = 0
    /\ unsubscribed = FALSE

NoTaker ==
    [phase |-> "none", innerClosed |-> FALSE, outerClosed |-> FALSE,
     sent |-> 0, got |-> <<>>, ended |-> "no", released |-> FALSE]

TakeAtRest ==
    /\ takeCount = 0
    /\ step = 1
    /\ takers = [s \in TakerIds |-> NoTaker]

NoTimer == [pending |-> FALSE, left |-> 0, args |-> "p"]

DebounceAtRest ==
    /\ delay = 0
    /\ timeoutId = 0
    /\ timers = [i \in TimerIds |-> NoTimer]
    /\ sinceCall = 0
    /\ lastArgs = "p"
    /\ quiet = "never"
    /\ invocations = <<>>

NoMemoCall == [key |-> 0, value |-> 0, invoked |-> FALSE]

MemoAtRest ==
    /\ maxSize = 0
    /\ ttl = 0
    /\ memo = <<>>
    /\ now = 0
    /\ memoStack = <<>>
    /\ fnCalls = 0
    /\ memoLast = NoMemoCall

Unregistered ==
    [type |-> "none", deps |-> <<>>, singleton |-> FALSE, instance |-> 0,
     yields |-> "object"]

ContainerAtRest ==
    /\ registry = [n \in ServiceNames |-> Unregistered]
    /\ ids = 0
    /\ made = [n \in ServiceNames |-> 0]
    /\ returned = [n \in ServiceNames |-> {}]
    /\ resolved = 0
    /\ containerLast = [name |-> "a", ok |-> FALSE, value |-> 0]

BeyondQueueAtRest ==
    CacheAtRest /\ EmitterAtRest /\ MachineAtRest /\ ObservableAtRest
    /\ TakeAtRest
    /\ DebounceAtRest
    /\ MemoAtRest
    /\ ContainerAtRest

\* --------------------------------------------------------------- helpers
\* `x || 1` on a number option: undefined and 0 are falsy.
OrOne(opt) == IF opt = Omitted THEN 1 ELSE IF opt[1] = 0 THEN 1 ELSE opt[1]

\* options.concurrency || 1
ConcurrencyOf(opt) == OrOne(opt)

\* options.autoStart !== false
AutoStartOf(opt) == opt # Given(FALSE)

\* options.priority || 1
PriorityOf(opt) == OrOne(opt)

\* A comparator that orders by ascending priority.
CompareAscending(a, b) == a.priority - b.priority

\* The comparator of add(): (a, b) => b.priority - a.priority.
Compare(a, b) == b.priority - a.priority

\* A sort that moves an element left past its equals as well.
RECURSIVE InsertEntryBeforeEquals(_, _)
InsertEntryBeforeEquals(sorted, e) ==
    IF sorted = <<>> THEN <<e>>
    ELSE LET last == sorted[Len(sorted)]
         IN IF Compare(last, e) >= 0
            THEN Append(InsertEntryBeforeEquals(
                            SubSeq(sorted, 1, Len(sorted) - 1), e), last)
            ELSE Append(sorted, e)

\* Array.prototype.sort with that comparator: a stable sort (ECMAScript 2019),
\* written as an insertion sort that moves an element left only past
\* elements it must precede (comparator > 0 for the pair in array order).
RECURSIVE InsertEntry(_, _)
InsertEntry(sorted, e) ==
    IF sorted = <<>> THEN <<e>>
    ELSE LET last == sorted[Len(sorted)]
         IN IF Compare(last, e) > 0
            THEN Append(InsertEntry(SubSeq(sorted, 1, Len(sorted) - 1), e), last)
            ELSE Append(sorted, e)

RECURSIVE SortQueue(_)
SortQueue(q) ==
    IF q = <<>> THEN <<>>
    ELSE InsertEntry(SortQueue(SubSeq(q, 1, Len(q) - 1)), q[Len(q)])

\* A dispatch loop whose bound is off by one.
RECURSIVE ProcessLoopOffByOne(_, _, _)
ProcessLoopOffByOne(q, r, started) ==
    IF r <= concurrency /\ Len(q) > 0
    THEN ProcessLoopOffByOne(Tail(q), r + 1, Append(started, Head(q)))
    ELSE [queue |-> q, running |-> r, started |-> started]

\* A dispatch loop that starts the head entry and leaves it in the backlog.
ProcessLoopKeepsHead(q, r, started) ==
    IF r < concurrency /\ Len(q) > 0
    THEN [queue |-> q, running |-> r + 1, started |-> Append(started, Head(q))]
    ELSE [queue |-> q, running |-> r, started |-> started]

\* A dispatch loop that always leaves one slot free.
RECURSIVE ProcessLoopLeavesSlot(_, _, _)
ProcessLoopLeavesSlot(q, r, started) ==
    IF r + 1 < concurrency /\ Len(q) > 0
    THEN ProcessLoopLeavesSlot(Tail(q), r + 1, Append(started, Head(q)))
    ELSE [queue |-> q, running |-> r, started |-> started]

\* The while loop of _process: shift entries while a slot is free.
RECURSIVE ProcessLoop(_, _, _)
ProcessLoop(q, r, started) ==
    IF r < concurrency /\ Len(q) > 0
    THEN ProcessLoop(Tail(q), r + 1, Append(started, Head(q)))
    ELSE [queue |-> q, running |-> r, started |-> started]

\* A _process() that starts one entry at most (an `if` for the `while`).
ProcessAtMostOne(q, r, p) ==
    IF ~p /\ r < concurrency /\ Len(q) > 0
    THEN [queue |-> Tail(q), running |-> r + 1, started |-> <<Head(q)>>]
    ELSE [queue |-> q, running |-> r, started |-> <<>>]

\* A _process() without the early return for a paused queue.
ProcessIgnoringPause(q, r, p) == ProcessLoop(q, r, <<>>)

\* A _process() whose test of the paused flag is inverted.
ProcessInvertedPause(q, r, p) ==
    IF ~p THEN [queue |-> q, running |-> r, started |-> <<>>]
    ELSE ProcessLoop(q, r, <<>>)

\* _process() on backlog q, running count r and paused flag p: the new
\* backlog, the new running count and the entries it dispatched.
Process(q, r, p) ==
    IF p THEN [queue |-> q, running |-> r, started |-> <<>>]
    ELSE ProcessLoop(q, r, <<>>)

\* A _checkEmpty() that does not reset this.emptyCallbacks.
CheckEmptyKeepsWaiters(q, r, cbs) ==
    IF Len(q) = 0 /\ r = 0
    THEN [emptyCallbacks |-> cbs, callbacks |-> cbs]
    ELSE [emptyCallbacks |-> cbs, callbacks |-> <<>>]

\* _checkEmpty() on backlog q, running count r and waiters cbs: the new
\* emptyCallbacks and the callbacks its forEach is going to invoke.
CheckEmpty(q, r, cbs) ==
    IF Len(q) = 0 /\ r = 0
    THEN [emptyCallbacks |-> <<>>, callbacks |-> cbs]
    ELSE [emptyCallbacks |-> cbs, callbacks |-> <<>>]

Range(s) == {s[i] : i \in 1..Len(s)}
Ids(s) == {s[i].id : i \in 1..Len(s)}

\* The id the next add() gives its entry: the first id not in use, so ids
\* number the admissions as long as no id is released.
NextTaskId ==
    CHOOSE t \in 1..(MaxTasks + 1) :
        /\ t \in TaskIds => handle[t] = "unused"
        /\ \A u \in 1..(t - 1) : handle[u] # "unused"
\* The id the next onEmpty() gives its registration.
NextCallbackId == Cardinality({c \in CallbackIds : regAt[c] # "unused"}) + 1

\* forEach over the callbacks: a new innermost frame (none for an empty list).
PushFrame(stk, callbacks) ==
    IF callbacks = <<>> THEN stk
    ELSE Append(stk, [todo |-> callbacks, inBody |-> FALSE])

\* User code may call the queue when no notification is going on, or from
\* the body of the callback being invoked.
UserCode == IF stack = <<>> THEN TRUE ELSE stack[Len(stack)].inBody

\* Microtasks run only when the call stack is empty.
MicrotaskTurn == stack = <<>>

\* The bookkeeping of the entries a _process() call has just dispatched.
StageAfter(started) ==
    [t \in TaskIds |-> IF t \in Ids(started) THEN "scheduled" ELSE stage[t]]
CapturedAfter(started) ==
    [t \in TaskIds |->
        IF t \in Ids(started)
        THEN (CHOOSE e \in Range(started) : e.id = t).task
        ELSE captured[t]]
OrderAfter(started) ==
    order \o [i \in 1..Len(started) |->
                 [id |-> started[i].id, given |-> given[started[i].id]]]

\* ------------------------------------------------------------------ Init
Init ==
    /\ \E c \in ConcurrencyOpts : concurrency = ConcurrencyOf(c)
    /\ \E a \in AutoStartOpts : autoStart = AutoStartOf(a)
    /\ queue = <<>>
    /\ running = 0
    /\ paused = FALSE
    /\ emptyCallbacks = <<>>
    /\ handle = [t \in TaskIds |-> "unused"]
    /\ settles = [t \in TaskIds |-> 0]
    /\ stage = [t \in TaskIds |-> "none"]
    /\ captured = [t \in TaskIds |-> "none"]
    /\ stack = <<>>
    /\ given = [t \in TaskIds |-> Omitted]
    /\ order = <<>>
    /\ fired = [c \in CallbackIds |-> 0]
    /\ regAt = [c \in CallbackIds |-> "unused"]
    /\ onlyAdds = TRUE
    /\ sinceStart = {}
    /\ lastRead = <<>>
    /\ BeyondQueueAtRest

\* --------------------------------------------------------------- actions
\* An add() that calls _process() whatever autoStart says.
AddDispatching(task, opt) ==
    /\ UserCode
    /\ NextTaskId <= MaxTasks
    /\ LET id == NextTaskId
           entry == [id |-> id, task |-> task, priority |-> PriorityOf(opt)]
           sorted == SortQueue(Append(queue, entry))
           res == Process(sorted, running, paused)
           given1 == [given EXCEPT ![id] = opt]
       IN /\ handle' = [handle EXCEPT ![id] = "pending"]
          /\ queue' = res.queue
          /\ running' = res.running
          /\ stage' = StageAfter(res.started)
          /\ captured' = CapturedAfter(res.started)
          /\ order' = order \o [i \in 1..Len(res.started) |->
                                   [id |-> res.started[i].id,
                                    given |-> given1[res.started[i].id]]]
          /\ given' = [t \in TaskIds |->
                          IF t \in Ids(res.started) THEN Omitted ELSE given1[t]]
          /\ sinceStart' = sinceStart \ Ids(res.started)
    /\ UNCHANGED elsewhere
    /\ UNCHANGED <<concurrency, autoStart, paused, emptyCallbacks, settles,
                   stack, fired, regAt, onlyAdds>>

\* add(task, {priority: opt}) / add(task) when opt is Omitted.
Add(task, opt) ==
    /\ UserCode
    /\ NextTaskId <= MaxTasks
    /\ LET id == NextTaskId
           entry == [id |-> id, task |-> task, priority |-> PriorityOf(opt)]
           sorted == SortQueue(Append(queue, entry))
           res == IF autoStart /\ ~paused
                  THEN Process(sorted, running, paused)
                  ELSE [queue |-> sorted, running |-> running, started |-> <<>>]
           given1 == [given EXCEPT ![id] = opt]
       IN /\ handle' = [handle EXCEPT ![id] = "pending"]
          /\ queue' = res.queue
          /\ running' = res.running
          /\ stage' = StageAfter(res.started)
          /\ captured' = CapturedAfter(res.started)
          /\ order' = order \o [i \in 1..Len(res.started) |->
                                   [id |-> res.started[i].id,
                                    given |-> given1[res.started[i].id]]]
          /\ given' = [t \in TaskIds |->
                          IF t \in Ids(res.started) THEN Omitted ELSE given1[t]]
          /\ sinceStart' = sinceStart \ Ids(res.started)
    /\ UNCHANGED elsewhere
    /\ UNCHANGED <<concurrency, autoStart, paused, emptyCallbacks, settles,
                   stack, fired, regAt, onlyAdds>>

\* start()
Start ==
    /\ UserCode
    /\ LET res == Process(queue, running, FALSE)
       IN /\ paused' = FALSE
          /\ queue' = res.queue
          /\ running' = res.running
          /\ stage' = StageAfter(res.started)
          /\ captured' = CapturedAfter(res.started)
          /\ order' = OrderAfter(res.started)
          /\ given' = [t \in TaskIds |->
                          IF t \in Ids(res.started) THEN Omitted ELSE given[t]]
          /\ sinceStart' = Ids(res.queue)
    /\ onlyAdds' = FALSE
    /\ UNCHANGED elsewhere
    /\ UNCHANGED <<concurrency, autoStart, emptyCallbacks, handle, settles,
                   stack, fired, regAt>>

\* pause()
Pause ==
    /\ UserCode
    /\ paused' = TRUE
    /\ onlyAdds' = FALSE
    /\ sinceStart' = {}
    /\ UNCHANGED elsewhere
    /\ UNCHANGED <<concurrency, autoStart, queue, running, emptyCallbacks,
                   handle, settles, stage, captured, stack, given, order,
                   fired, regAt>>

\* A clear() that also rejects the completion handles of what it drops.
ClearRejecting ==
    /\ UserCode
    /\ queue' = <<>>
    /\ handle' = [t \in TaskIds |->
                     IF t \in Ids(queue) THEN "rejected" ELSE handle[t]]
    /\ given' = [t \in TaskIds |-> Omitted]
    /\ onlyAdds' = FALSE
    /\ sinceStart' = {}
    /\ UNCHANGED elsewhere
    /\ UNCHANGED <<concurrency, autoStart, running, paused, emptyCallbacks,
                   settles, stage, captured, stack, order, fired, regAt>>

\* A clear() that also resets the running count.
ClearResetsRunning ==
    /\ UserCode
    /\ queue' = <<>>
    /\ running' = 0
    /\ given' = [t \in TaskIds |-> Omitted]
    /\ onlyAdds' = FALSE
    /\ sinceStart' = {}
    /\ UNCHANGED elsewhere
    /\ UNCHANGED <<concurrency, autoStart, paused, emptyCallbacks, handle,
                   settles, stage, captured, stack, order, fired, regAt>>

\* clear()
Clear ==
    /\ UserCode
    /\ queue' = <<>>
    /\ given' = [t \in TaskIds |-> Omitted]
    /\ onlyAdds' = FALSE
    /\ sinceStart' = {}
    /\ UNCHANGED elsewhere
    /\ UNCHANGED <<concurrency, autoStart, running, paused, emptyCallbacks,
                   handle, settles, stage, captured, stack, order, fired,
                   regAt>>

\* onEmpty(callback)
OnEmpty ==
    /\ UserCode
    /\ NextCallbackId <= MaxCallbacks
    /\ LET cb == NextCallbackId
           pushed == Append(emptyCallbacks, cb)
           drained == Len(queue) = 0 /\ running = 0
           res == IF drained
                  THEN CheckEmpty(queue, running, pushed)
                  ELSE [emptyCallbacks |-> pushed, callbacks |-> <<>>]
       IN /\ emptyCallbacks' = res.emptyCallbacks
          /\ stack' = PushFrame(stack, res.callbacks)
          /\ regAt' = [regAt EXCEPT
                          ![cb] = IF drained THEN "drained" ELSE "outstanding"]
    /\ onlyAdds' = FALSE
    /\ UNCHANGED elsewhere
    /\ UNCHANGED <<concurrency, autoStart, queue, running, paused, handle,
                   settles, stage, captured, given, order, fired, sinceStart>>

\* The microtask `.then(() => entry.task())` of a dispatched entry.
RunTask(t) ==
    /\ MicrotaskTurn
    /\ stage[t] = "scheduled"
    /\ stage' = [stage EXCEPT ![t] = "called"]
    /\ UNCHANGED elsewhere
    /\ UNCHANGED <<concurrency, autoStart, queue, running, paused,
                   emptyCallbacks, handle, settles, captured, stack, given,
                   order, fired, regAt, onlyAdds, sinceStart>>

\* A chain in which a failure of the task reaches no callback.
OutcomeUncaught(task) == IF task = "resolves" THEN "fulfilled" ELSE "lost"

\* A chain in which calling a non-callable yields undefined.
OutcomeIgnoringMisuse(task) ==
    IF task \in {"resolves", "notCallable"} THEN "fulfilled" ELSE "rejected"

\* How the promise of `.then(() => entry.task())` settles: fulfilled for a
\* value or a promise that fulfils; rejected for a rejecting promise, for a
\* synchronous throw and for the TypeError of calling a non-callable.
Outcome(task) == IF task = "resolves" THEN "fulfilled" ELSE "rejected"

\* A chain whose resolve callback never runs.
RunsThenNever(outcome) == FALSE

\* Whether the callback `result => { entry.resolve(result) }` runs: `then`
\* runs it for a fulfilled promise only.
RunsThen(outcome) == outcome = "fulfilled"

\* A chain whose reject callback runs whatever the outcome.
RunsCatchAlways(outcome) == TRUE

\* A chain without the `.catch(...)` step.
RunsCatchNever(outcome) == FALSE

\* Whether the callback `err => { entry.reject(err) }` runs: `catch` runs it
\* for a rejected promise only; entry.resolve does not throw.
RunsCatch(outcome) == outcome = "rejected"

\* The microtasks `.then(resolve callback).catch(reject callback)` of entry
\* t, once the promise of entry.task() is settled.  The first call of
\* resolve or reject settles the completion handle; a later one has no effect.
SettleTask(t) ==
    /\ MicrotaskTurn
    /\ stage[t] = "called"
    /\ LET outcome == Outcome(captured[t])
           calls == (IF RunsThen(outcome) THEN 1 ELSE 0)
                    + (IF RunsCatch(outcome) THEN 1 ELSE 0)
           state == IF RunsThen(outcome) THEN "fulfilled"
                    ELSE IF RunsCatch(outcome) THEN "rejected"
                    ELSE "pending"
       IN /\ handle' = [handle EXCEPT ![t] = IF @ = "pending" THEN state ELSE @]
          /\ settles' = [settles EXCEPT ![t] = @ + calls]
    /\ stage' = [stage EXCEPT ![t] = "settled"]
    /\ captured' = [captured EXCEPT ![t] = "none"]
    /\ UNCHANGED elsewhere
    /\ UNCHANGED <<concurrency, autoStart, queue, running, paused,
                   emptyCallbacks, stack, given, order, fired, regAt, onlyAdds,
                   sinceStart>>

\* The microtask `.finally(() => { running--; _process(); _checkEmpty() })`.
Finalize(t) ==
    /\ MicrotaskTurn
    /\ stage[t] = "settled"
    /\ LET res == Process(queue, running - 1, paused)
           chk == CheckEmpty(res.queue, res.running, emptyCallbacks)
       IN /\ queue' = res.queue
          /\ running' = res.running
          /\ stage' = [StageAfter(res.started) EXCEPT ![t] = "finished"]
          /\ captured' = CapturedAfter(res.started)
          /\ order' = OrderAfter(res.started)
          /\ given' = [u \in TaskIds |->
                          IF u \in Ids(res.started) THEN Omitted ELSE given[u]]
          /\ emptyCallbacks' = chk.emptyCallbacks
          /\ stack' = PushFrame(stack, chk.callbacks)
          /\ sinceStart' = sinceStart \ Ids(res.started)
    /\ UNCHANGED elsewhere
    /\ UNCHANGED <<concurrency, autoStart, paused, handle, settles, fired,
                   regAt, onlyAdds>>

\* callbacks.forEach(item => item()): the next callback is invoked.
NotifyNext ==
    /\ stack # <<>>
    /\ LET top == stack[Len(stack)]
       IN /\ ~top.inBody
          /\ top.todo # <<>>
          /\ fired' = [fired EXCEPT ![Head(top.todo)] = @ + 1]
          /\ stack' = [stack EXCEPT
                          ![Len(stack)] = [todo |-> Tail(top.todo),
                                           inBody |-> TRUE]]
    /\ UNCHANGED elsewhere
    /\ UNCHANGED <<concurrency, autoStart, queue, running, paused,
                   emptyCallbacks, handle, settles, stage, captured, given,
                   order, regAt, onlyAdds, sinceStart>>

\* The callback being invoked returns; the forEach ends after the last one.
CallbackReturn ==
    /\ stack # <<>>
    /\ LET top == stack[Len(stack)]
       IN /\ top.inBody
          /\ stack' = IF top.todo = <<>>
                      THEN SubSeq(stack, 1, Len(stack) - 1)
                      ELSE [stack EXCEPT ![Len(stack)].inBody = FALSE]
    /\ UNCHANGED elsewhere
    /\ UNCHANGED <<concurrency, autoStart, queue, running, paused,
                   emptyCallbacks, handle, settles, stage, captured, given,
                   order, fired, regAt, onlyAdds, sinceStart>>

\* Once the finally callback of a dispatched entry has run, or clear() has
\* dropped an entry, the queue holds no reference to it: its id is free to
\* name a later admission, and the user lets go of its completion handle.
Forget(t) ==
    /\ UserCode
    /\ handle[t] # "unused"
    /\ t \notin Ids(queue)
    /\ stage[t] \in {"none", "finished"}
    /\ handle' = [handle EXCEPT ![t] = "unused"]
    /\ settles' = [settles EXCEPT ![t] = 0]
    /\ stage' = [stage EXCEPT ![t] = "none"]
    /\ order' = SelectSeq(order, LAMBDA o : o.id # t)
    /\ UNCHANGED elsewhere
    /\ UNCHANGED <<concurrency, autoStart, queue, running, paused,
                   emptyCallbacks, captured, stack, given, fired, regAt,
                   onlyAdds, sinceStart>>

\* A size getter that empties the backlog it measures.
ReadSizeDraining ==
    /\ UserCode
    /\ lastRead' = <<"size", Len(queue)>>
    /\ queue' = <<>>
    /\ UNCHANGED <<concurrency, autoStart, running, paused, emptyCallbacks,
                   handle, settles, stage, captured, stack, given, order,
                   fired, regAt, onlyAdds, sinceStart>>
    /\ UNCHANGED beyondQueue

\* get size()
ReadSize ==
    /\ UserCode
    /\ lastRead' = <<"size", Len(queue)>>
    /\ UNCHANGED vars
    /\ UNCHANGED beyondQueue

\* get pending()
ReadPending ==
    /\ UserCode
    /\ lastRead' = <<"pending", running>>
    /\ UNCHANGED vars
    /\ UNCHANGED beyondQueue

\* get isPaused()
ReadIsPaused ==
    /\ UserCode
    /\ lastRead' = <<"isPaused", paused>>
    /\ UNCHANGED vars
    /\ UNCHANGED beyondQueue

\* ------------------------------------------------------- specifications
AddTask == \E task \in BasicKinds, opt \in PriorityOpts : Add(task, opt)
AddPriority == \E opt \in WidePriorityOpts : Add("resolves", opt)
AddAnyKind == \E task \in TaskKinds : Add(task, Omitted)
AddPlain == \E task \in BasicKinds : Add(task, Omitted)
AddUrgency == \E opt \in {Given(1), Given(5)} : Add("resolves", opt)
Release == \E t \in TaskIds : Forget(t)
Run == \E t \in TaskIds : RunTask(t)
Settle == \E t \in TaskIds : SettleTask(t)
Finish == \E t \in TaskIds : Finalize(t)

Next ==
    \/ AddTask
    \/ Start
    \/ Pause
    \/ Clear
    \/ OnEmpty
    \/ Run
    \/ Settle
    \/ Finish
    \/ NotifyNext
    \/ CallbackReturn

Spec == Init /\ [][Next]_vars

\* The queue without drain callbacks, over the wide universe of priorities.
NextPriority ==
    \/ AddPriority
    \/ Start
    \/ Pause
    \/ Clear
    \/ Run
    \/ Settle
    \/ Finish

SpecPriority == Init /\ [][NextPriority]_vars

\* The queue without drain callbacks, over every kind of task.
NextKinds ==
    \/ AddAnyKind
    \/ Start
    \/ Pause
    \/ Clear
    \/ Run
    \/ Settle
    \/ Finish

SpecKinds == Init /\ [][NextKinds]_vars

\* Microtasks that are queued do run, a dispatched unit of work finishes,
\* and a drain callback returns; calls of the public methods are up to the
\* user and carry no fairness.
Fairness ==
    /\ \A t \in TaskIds :
          WF_vars(RunTask(t)) /\ WF_vars(SettleTask(t)) /\ WF_vars(Finalize(t))
    /\ WF_vars(NotifyNext)
    /\ WF_vars(CallbackReturn)

\* The whole queue over tasks of the default priority, with that fairness.
NextPlain ==
    \/ AddPlain
    \/ Start
    \/ Pause
    \/ Clear
    \/ OnEmpty
    \/ Run
    \/ Settle
    \/ Finish
    \/ NotifyNext
    \/ CallbackReturn

SpecFair == Init /\ [][NextPlain]_vars /\ Fairness

\* The queue without drain callbacks, with that fairness, in which the ids
\* of finished and cleared entries are released, so that add() can be called
\* without end.
NextStream ==
    \/ AddUrgency
    \/ Start
    \/ Pause
    \/ Clear
    \/ Run
    \/ Settle
    \/ Finish
    \/ Release

SpecStream == Init /\ [][NextStream]_vars /\ Fairness

\* The whole queue over tasks of the default priority, with reads of its
\* getters between any two steps and inside drain callbacks.
NextReads ==
    \/ AddPlain
    \/ Start
    \/ Pause
    \/ Clear
    \/ OnEmpty
    \/ Run
    \/ Settle
    \/ Finish
    \/ NotifyNext
    \/ CallbackReturn
    \/ ReadSize
    \/ ReadPending
    \/ ReadIsPaused

SpecReads == Init /\ [][NextReads]_<<vars, lastRead>>

\* The queue before anything is constructed or called.
QueueAtRest ==
    /\ concurrency = 1
    /\ autoStart = TRUE
    /\ queue = <<>>
    /\ running = 0
    /\ paused = FALSE
    /\ emptyCallbacks = <<>>
    /\ handle = [t \in TaskIds |-> "unused"]
    /\ settles = [t \in TaskIds |-> 0]
    /\ stage = [t \in TaskIds |-> "none"]
    /\ captured = [t \in TaskIds |-> "none"]
    /\ stack = <<>>
    /\ given = [t \in TaskIds |-> Omitted]
    /\ order = <<>>
    /\ fired = [c \in CallbackIds |-> 0]
    /\ regAt = [c \in CallbackIds |-> "unused"]
    /\ onlyAdds = TRUE
    /\ sinceStart = {}
    /\ lastRead = <<>>

\* -------------------------------------------------------------- LRUCache
\* Everything a method of the cache leaves alone.
beyondCache == <<vars, lastRead, emitterVars, machineVars, observableVars,
    takeVars,
    debounceVars,
    memoVars,
    containerVars>>

\* Map.prototype.has, delete and set on the sequence of entries: set keeps
\* the place of a key that is present and appends one that is not.
MapHas(m, k) == \E i \in 1..Len(m) : m[i].key = k
MapGet(m, k) == m[CHOOSE i \in 1..Len(m) : m[i].key = k].value
MapDelete(m, k) == SelectSeq(m, LAMBDA e : e.key # k)
MapSet(m, k, v) ==
    IF MapHas(m, k)
    THEN [i \in 1..Len(m) |-> IF m[i].key = k THEN [key |-> k, value |-> v]
                                              ELSE m[i]]
    ELSE Append(m, [key |-> k, value |-> v])
MapKeys(m) == [i \in 1..Len(m) |-> m[i].key]

\* A get(key) that returns the value and leaves the Map as it is.
CacheGetWithoutRefresh(m, k) == m

\* The Map after get(key): a hit deletes the key and sets it again.
CacheGet(m, k) ==
    IF ~MapHas(m, k) THEN m
    ELSE MapSet(MapDelete(m, k), k, MapGet(m, k))

\* A put(key, value) that makes room before it looks for the key.
CachePutEvictsFirst(m, k, v) ==
    LET room == IF Len(m) >= capacity /\ Len(m) > 0 THEN Tail(m) ELSE m
    IN MapSet(MapDelete(room, k), k, v)

\* The Map after put(key, value): delete the key if present, set it, and
\* if the size is above the capacity delete the first key of the Map.
CachePut(m, k, v) ==
    LET deleted == IF MapHas(m, k) THEN MapDelete(m, k) ELSE m
        set == MapSet(deleted, k, v)
    IN IF Len(set) > capacity THEN MapDelete(set, set[1].key) ELSE set

\* History: the ranks after key k is used (when touched) and the cached
\* keys become those of m; a used key is the most recent one, the others
\* keep their order.
Ranked(r, touched, k, m) ==
    LET present == {m[i].key : i \in 1..Len(m)}
        before(a, b) ==
            IF touched /\ b = k THEN a # k
            ELSE IF touched /\ a = k THEN FALSE
            ELSE r[a] < r[b]
    IN [j \in CacheKeys |->
           IF j \notin present THEN 0
           ELSE 1 + Cardinality({i \in present \ {j} : before(i, j)})]

\* get(key)
Get(k) ==
    /\ cache' = CacheGet(cache, k)
    /\ cacheLast' = [op |-> "get", key |-> k, value |-> "none",
                     had |-> MapHas(cache, k),
                     result |-> IF MapHas(cache, k) THEN MapGet(cache, k)
                                ELSE "undefined"]
    /\ recency' = Ranked(recency, MapHas(cache, k), k, cache')
    /\ UNCHANGED capacity
    /\ UNCHANGED beyondCache

\* put(key, value)
Put(k, v) ==
    /\ cache' = CachePut(cache, k, v)
    /\ cacheLast' = [op |-> "put", key |-> k, value |-> v,
                     had |-> MapHas(cache, k), result |-> "undefined"]
    /\ recency' = Ranked(recency, TRUE, k, cache')
    /\ UNCHANGED capacity
    /\ UNCHANGED beyondCache

\* has(key)
Has(k) ==
    /\ cacheLast' = [op |-> "has", key |-> k, value |-> "none",
                     had |-> MapHas(cache, k), result |-> MapHas(cache, k)]
    /\ UNCHANGED <<capacity, cache, recency>>
    /\ UNCHANGED beyondCache

\* delete(key)
Delete(k) ==
    /\ cache' = IF MapHas(cache, k) THEN MapDelete(cache, k) ELSE cache
    /\ cacheLast' = [op |-> "delete", key |-> k, value |-> "none",
                     had |-> MapHas(cache, k), result |-> MapHas(cache, k)]
    /\ recency' = Ranked(recency, FALSE, k, cache')
    /\ UNCHANGED capacity
    /\ UNCHANGED beyondCache

\* clear()
ClearCache ==
    /\ cache' = <<>>
    /\ cacheLast' = [op |-> "clear", key |-> 0, value |-> "none",
                     had |-> FALSE, result |-> "undefined"]
    /\ recency' = Ranked(recency, FALSE, 0, cache')
    /\ UNCHANGED capacity
    /\ UNCHANGED beyondCache

\* keys()
Keys ==
    /\ cacheLast' = [op |-> "keys", key |-> 0, value |-> "none",
                     had |-> FALSE, result |-> MapKeys(cache)]
    /\ UNCHANGED <<capacity, cache, recency>>
    /\ UNCHANGED beyondCache

\* new LRUCache(capacity)
InitCache ==
    /\ capacity \in Capacities
    /\ cache = <<>>
    /\ recency = [k \in CacheKeys |-> 0]
    /\ cacheLast = <<>>
    /\ QueueAtRest
    /\ EmitterAtRest
    /\ MachineAtRest
    /\ ObservableAtRest
    /\ TakeAtRest
    /\ DebounceAtRest
    /\ MemoAtRest
    /\ ContainerAtRest

GetKey == \E k \in CacheKeys : Get(k)
PutKey == \E k \in CacheKeys, v \in CacheValues : Put(k, v)
HasKey == \E k \in CacheKeys : Has(k)
DeleteKey == \E k \in CacheKeys : Delete(k)

NextCache ==
    \/ GetKey
    \/ PutKey
    \/ HasKey
    \/ DeleteKey
    \/ ClearCache
    \/ Keys

SpecCache == InitCache /\ [][NextCache]_cacheVars

\* ---------------------------------------------------------- EventEmitter
\* Everything a method of the emitter leaves alone.
beyondEmitter == <<vars, lastRead, cacheVars, machineVars, observableVars,
    takeVars,
    debounceVars,
    memoVars,
    containerVars>>

\* listeners.findIndex(l => l === listener || l.original === listener) and
\* splice(index, 1) when it is found: `listener` is a function fn handed to
\* off() (wrapper 0), which is the `original` of a wrapper made for it, or
\* a wrapper that removes itself.
Matches(l, fn, wrapper) ==
    IF wrapper = 0 THEN l.fn = fn ELSE l.wrapper = wrapper
SpliceFirst(list, fn, wrapper) ==
    IF \E i \in 1..Len(list) : Matches(list[i], fn, wrapper)
    THEN LET index == CHOOSE i \in 1..Len(list) :
                         /\ Matches(list[i], fn, wrapper)
                         /\ \A j \in 1..(i - 1) : ~Matches(list[j], fn, wrapper)
         IN SubSeq(list, 1, index - 1) \o SubSeq(list, index + 1, Len(list))
    ELSE list

\* The Map after off(event, listener): nothing when the Map has no key.
EventsAfterOff(m, e, fn, wrapper) ==
    IF ~m[e].has THEN m
    ELSE [m EXCEPT ![e].list = SpliceFirst(@, fn, wrapper)]

\* The Map after on(event, listener).
EventsAfterOn(m, e, l) ==
    [m EXCEPT ![e] = [has |-> TRUE, list |-> Append(@.list, l)]]

\* The Map after removeAllListeners(event): a new Map unless it has the key.
EventsAfterRemoveAll(m, arg) ==
    IF arg # Omitted /\ m[arg[1]].has
    THEN [m EXCEPT ![arg[1]].list = <<>>]
    ELSE [e \in EventNames |-> [has |-> FALSE, list |-> <<>>]]

\* User code runs: the harness, or the body of a listener being invoked.
ListenerCode ==
    IF emitStack = <<>> THEN TRUE ELSE emitStack[Len(emitStack)].inBody

\* on(event, listener)
On(e, fn) ==
    /\ ListenerCode
    /\ Len(events[e].list) < MaxListeners
    /\ events' = EventsAfterOn(events, e, [fn |-> fn, wrapper |-> 0])
    /\ emitterLast' = [op |-> "on", event |-> Given(e)]
    /\ UNCHANGED <<emitStack, wrappers, invoked>>
    /\ UNCHANGED beyondEmitter

\* once(event, listener)
Once(e, fn) ==
    /\ ListenerCode
    /\ Len(events[e].list) < MaxListeners
    /\ wrappers < MaxOnce
    /\ wrappers' = wrappers + 1
    /\ events' = EventsAfterOn(events, e, [fn |-> fn, wrapper |-> wrappers'])
    /\ emitterLast' = [op |-> "once", event |-> Given(e)]
    /\ UNCHANGED <<emitStack, invoked>>
    /\ UNCHANGED beyondEmitter

\* off(event, listener)
Off(e, fn) ==
    /\ ListenerCode
    /\ events' = EventsAfterOff(events, e, fn, 0)
    /\ emitterLast' = [op |-> "off", event |-> Given(e)]
    /\ UNCHANGED <<emitStack, wrappers, invoked>>
    /\ UNCHANGED beyondEmitter

\* removeAllListeners(event) / removeAllListeners()
RemoveAllListeners(arg) ==
    /\ ListenerCode
    /\ events' = EventsAfterRemoveAll(events, arg)
    /\ emitterLast' = [op |-> "removeAllListeners", event |-> arg]
    /\ UNCHANGED <<emitStack, wrappers, invoked>>
    /\ UNCHANGED beyondEmitter

\* emit(event): false when the Map has no key; else the forEach over a copy
\* of the array starts, and true is returned when it ends.
Emit(e) ==
    /\ ListenerCode
    /\ Len(emitStack) < MaxDepth
    /\ IF ~events[e].has
       THEN /\ emitterLast' = [op |-> "emit returns", event |-> Given(e),
                               result |-> FALSE, had |-> 0]
            /\ UNCHANGED emitStack
       ELSE IF events[e].list = <<>>
       THEN /\ emitterLast' = [op |-> "emit returns", event |-> Given(e),
                               result |-> TRUE, had |-> 0]
            /\ UNCHANGED emitStack
       ELSE /\ emitterLast' = [op |-> "emit", event |-> Given(e)]
            /\ emitStack' = Append(emitStack,
                                [event |-> e, todo |-> events[e].list,
                                 inBody |-> FALSE,
                                 had |-> Len(events[e].list)])
    /\ UNCHANGED <<events, wrappers, invoked>>
    /\ UNCHANGED beyondEmitter

\* listeners.forEach(listener => listener(...args)): the next listener of
\* the copy is invoked; a wrapper of once() first removes itself with
\* self.off(event, wrapper) and then invokes its listener.
InvokeNext ==
    /\ emitStack # <<>>
    /\ LET top == emitStack[Len(emitStack)]
           l == Head(top.todo)
       IN /\ ~top.inBody
          /\ events' = IF l.wrapper = 0 THEN events
                        ELSE EventsAfterOff(events, top.event, l.fn, l.wrapper)
          /\ invoked' = IF l.wrapper = 0 THEN invoked
                         ELSE [invoked EXCEPT ![l.wrapper] = @ + 1]
          /\ emitStack' = [emitStack EXCEPT
                              ![Len(emitStack)] = [top EXCEPT
                                                      !.todo = Tail(top.todo),
                                                      !.inBody = TRUE]]
          /\ emitterLast' = [op |-> "invoke", event |-> Given(top.event)]
    /\ UNCHANGED wrappers
    /\ UNCHANGED beyondEmitter

\* The listener being invoked returns; after the last one emit returns true.
ListenerReturn ==
    /\ emitStack # <<>>
    /\ LET top == emitStack[Len(emitStack)]
       IN /\ top.inBody
          /\ IF top.todo = <<>>
             THEN /\ emitStack' = SubSeq(emitStack, 1, Len(emitStack) - 1)
                  /\ emitterLast' = [op |-> "emit returns",
                                     event |-> Given(top.event),
                                     result |-> TRUE, had |-> top.had]
             ELSE /\ emitStack' = [emitStack EXCEPT
                                      ![Len(emitStack)].inBody = FALSE]
                  /\ emitterLast' = [op |-> "return",
                                     event |-> Given(top.event)]
    /\ UNCHANGED <<events, wrappers, invoked>>
    /\ UNCHANGED beyondEmitter

\* new EventEmitter()
InitEmitter ==
    /\ EmitterAtRest
    /\ QueueAtRest
    /\ CacheAtRest
    /\ MachineAtRest
    /\ ObservableAtRest
    /\ TakeAtRest
    /\ DebounceAtRest
    /\ MemoAtRest
    /\ ContainerAtRest

OnEvent == \E e \in EventNames, fn \in ListenerFns : On(e, fn)
OnceEvent == \E e \in EventNames, fn \in ListenerFns : Once(e, fn)
OffEvent == \E e \in EventNames, fn \in ListenerFns : Off(e, fn)
RemoveAll ==
    \E arg \in {Omitted} \cup {Given(e) : e \in EventNames} :
        RemoveAllListeners(arg)
EmitEvent == \E e \in EventNames : Emit(e)

NextEmitter ==
    \/ OnEvent
    \/ OnceEvent
    \/ OffEvent
    \/ RemoveAll
    \/ EmitEvent
    \/ InvokeNext
    \/ ListenerReturn

SpecEmitter == InitEmitter /\ [][NextEmitter]_emitterVars

\* ---------------------------------------------------------- StateMachine
\* Everything a method of the machine leaves alone.
beyondMachine == <<vars, lastRead, cacheVars, emitterVars, observableVars,
    takeVars,
    debounceVars,
    memoVars,
    containerVars>>

Other(st) == IF st = "idle" THEN "busy" ELSE "idle"

\* this.config.states[state].on[event]: the rule of the configuration for
\* an own key ("go" as configured, "back" a string rule of the busy state),
\* a function of Object.prototype for an inherited name when the state has
\* an `on` object at all, else undefined.
\* A rule is [kind, target, guard, action]; the last two say whether the
\* rule has a guard and an action.
HasOn(st) == st = "busy" \/ rules[st] # "none"
RuleOf(st, event) ==
    IF event = "go" /\ rules[st] # "none"
    THEN [kind |-> IF rules[st] = "string" THEN "string" ELSE "object",
          target |-> Other(st),
          guard |-> rules[st] \in {"guarded", "guardedAction"},
          action |-> rules[st] \in {"action", "guardedAction"}]
    ELSE IF event = "back" /\ st = "busy"
    THEN [kind |-> "string", target |-> "idle", guard |-> FALSE,
          action |-> FALSE]
    ELSE IF event \in InheritedNames /\ HasOn(st)
    THEN [kind |-> "function", target |-> "undefined", guard |-> FALSE,
          action |-> FALSE]
    ELSE [kind |-> "undefined", target |-> "undefined", guard |-> FALSE,
          action |-> FALSE]

\* The guards of the configuration: guard(context, payload) reads the flag.
GuardResult(ctx) == ctx.allow
\* The actions of the configuration: action(context, payload) flips it.
ActionResult(ctx) == [ctx EXCEPT !.allow = ~@]

\* transition(event) in state st with context ctx: what it returns as
\* "true" or "false" ("throws" for the TypeError of reading `.on` of an undefined state
\* configuration), the state and context after it and whether the action
\* of the rule ran.
TransitionOutcome(st, ctx, event) ==
    LET rule == RuleOf(st, event)
        same == [result |-> "false", state |-> st, context |-> ctx,
                 ran |-> FALSE]
    IN IF st \notin MachineStates THEN [same EXCEPT !.result = "throws"]
       ELSE IF rule.kind = "undefined" THEN same
       ELSE IF rule.guard /\ ~GuardResult(ctx) THEN same
       ELSE [result |-> "true", state |-> rule.target,
             context |-> IF rule.action THEN ActionResult(ctx) ELSE ctx,
             ran |-> rule.action]

\* can(event) in state st with context ctx: what it returns, "throws" for
\* a TypeError (an undefined state configuration, or `guard(...)` called
\* with guard undefined).
CanOutcome(st, ctx, event) ==
    LET rule == RuleOf(st, event)
    IN IF st \notin MachineStates THEN "throws"
       ELSE IF rule.kind = "undefined" THEN "false"
       ELSE IF rule.kind = "string" THEN "true"
       ELSE IF rule.guard THEN "true"
       ELSE "throws"

\* transition(event, payload)
Transition(event) ==
    /\ LET out == TransitionOutcome(currentState, context, event)
       IN /\ currentState' = out.state
          /\ context' = out.context
          /\ machineLast' = [op |-> "transition", event |-> event,
                             result |-> out.result, ran |-> out.ran]
    /\ UNCHANGED rules
    /\ UNCHANGED beyondMachine

\* can(event)
Can(event) ==
    /\ machineLast' = [op |-> "can", event |-> event,
                       result |-> CanOutcome(currentState, context, event),
                       ran |-> FALSE]
    /\ UNCHANGED <<rules, currentState, context>>
    /\ UNCHANGED beyondMachine

\* updateContext({allow: flag})
UpdateContext(flag) ==
    /\ context' = [context EXCEPT !.allow = flag]
    /\ machineLast' = [op |-> "updateContext", event |-> "none",
                       result |-> "undefined", ran |-> FALSE]
    /\ UNCHANGED <<rules, currentState>>
    /\ UNCHANGED beyondMachine

\* new StateMachine({initial: "idle", states, context})
InitMachine ==
    /\ rules \in [MachineStates -> RuleShapes]
    /\ currentState = "idle"
    /\ context \in [allow : BOOLEAN]
    /\ machineLast = <<>>
    /\ QueueAtRest
    /\ CacheAtRest
    /\ EmitterAtRest
    /\ ObservableAtRest
    /\ TakeAtRest
    /\ DebounceAtRest
    /\ MemoAtRest
    /\ ContainerAtRest

TransitionEvent == \E event \in MachineEvents : Transition(event)
CanEvent == \E event \in MachineEvents : Can(event)
UpdateFlag == \E flag \in BOOLEAN : UpdateContext(flag)

NextMachine ==
    \/ TransitionEvent
    \/ CanEvent
    \/ UpdateFlag

SpecMachine == InitMachine /\ [][NextMachine]_machineVars

\* ------------------------------------------------------------ Observable
\* Everything the subscription leaves alone.
beyondObservable == <<vars, lastRead, cacheVars, emitterVars, machineVars,
    takeVars,
    debounceVars,
    memoVars,
    containerVars>>

\* A subscriber that passes everything on, whatever the flags say.
OpenWhateverTheFlags(c, e) == TRUE

\* The test `if (completed || errored) return;` lets the call go on.
Open(c, e) == ~(c \/ e)

\* `observer.next && ...`: whether the observer has the callback.
ObserverHas(name) == observer = "object" \/ name = "next"

\* The producer can call the subscriber it was handed: from inside the
\* subscribe function, later, and from inside a callback it is called by.
ProducerCalls ==
    /\ subscription # "none"
    /\ produced < MaxProduced
    /\ Len(callStack) < MaxDepth
    /\ produced' = produced + 1

\* `cleanup && cleanup()`
CallCleanup(frames) ==
    /\ callStack' = IF cleanup = "function" THEN Append(frames, "cleanup") ELSE frames
    /\ cleanups' = IF cleanup = "function" THEN cleanups + 1 ELSE cleanups

\* observable.subscribe(observer): the subscribe function starts.
Subscribe ==
    /\ subscription = "none"
    /\ subscription' = "subscribing"
    /\ UNCHANGED <<observer, completed, errored, cleanup, callStack, produced,
                   delivered, dropped, cleanups, unsubscribed>>
    /\ UNCHANGED beyondObservable

\* The subscribe function returns: `cleanup = this._subscribeFn(subscriber)`
\* and subscribe() returns the subscription.
SubscribeReturns(fn) ==
    /\ subscription = "subscribing"
    /\ callStack = <<>>
    /\ subscription' = "returned"
    /\ cleanup' = fn
    /\ UNCHANGED <<observer, completed, errored, callStack, produced, delivered,
                   dropped, cleanups, unsubscribed>>
    /\ UNCHANGED beyondObservable

\* subscriber.next(value)
SubscriberNext ==
    /\ ProducerCalls
    /\ IF Open(completed, errored) /\ ObserverHas("next")
       THEN /\ delivered' = [delivered EXCEPT !.next = @ + 1]
            /\ callStack' = Append(callStack, "next")
            /\ UNCHANGED dropped
       ELSE /\ dropped' = IF Open(completed, errored) THEN dropped
                          ELSE dropped + 1
            /\ UNCHANGED <<delivered, callStack>>
    /\ UNCHANGED <<observer, subscription, completed, errored, cleanup,
                   cleanups, unsubscribed>>
    /\ UNCHANGED beyondObservable

\* subscriber.error(err)
SubscriberError ==
    /\ ProducerCalls
    /\ IF ~Open(completed, errored)
       THEN /\ dropped' = dropped + 1
            /\ UNCHANGED <<errored, delivered, callStack, cleanups>>
       ELSE /\ errored' = TRUE
            /\ UNCHANGED dropped
            /\ IF ObserverHas("error")
               THEN /\ delivered' = [delivered EXCEPT !.error = @ + 1]
                    /\ callStack' = Append(callStack, "error")
                    /\ UNCHANGED cleanups
               ELSE /\ CallCleanup(callStack)
                    /\ UNCHANGED delivered
    /\ UNCHANGED <<observer, subscription, completed, cleanup, unsubscribed>>
    /\ UNCHANGED beyondObservable

\* subscriber.complete()
SubscriberComplete ==
    /\ ProducerCalls
    /\ IF ~Open(completed, errored)
       THEN /\ dropped' = dropped + 1
            /\ UNCHANGED <<completed, delivered, callStack, cleanups>>
       ELSE /\ completed' = TRUE
            /\ UNCHANGED dropped
            /\ IF ObserverHas("complete")
               THEN /\ delivered' = [delivered EXCEPT !.complete = @ + 1]
                    /\ callStack' = Append(callStack, "complete")
                    /\ UNCHANGED cleanups
               ELSE /\ CallCleanup(callStack)
                    /\ UNCHANGED delivered
    /\ UNCHANGED <<observer, subscription, errored, cleanup, unsubscribed>>
    /\ UNCHANGED beyondObservable

\* The callback or cleanup being executed returns; after observer.error or
\* observer.complete the subscriber goes on with `cleanup && cleanup()`.
ObserverReturn ==
    /\ callStack # <<>>
    /\ LET top == callStack[Len(callStack)]
           rest == SubSeq(callStack, 1, Len(callStack) - 1)
       IN IF top \in {"error", "complete"}
          THEN CallCleanup(rest)
          ELSE callStack' = rest /\ UNCHANGED cleanups
    /\ UNCHANGED <<observer, subscription, completed, errored, cleanup,
                   produced, delivered, dropped, unsubscribed>>
    /\ UNCHANGED beyondObservable

\* subscription.unsubscribe()
Unsubscribe ==
    /\ subscription = "returned"
    /\ Len(callStack) < MaxDepth
    /\ unsubscribed' = TRUE
    /\ IF ~Open(completed, errored)
       THEN UNCHANGED <<completed, errored, callStack, cleanups>>
       ELSE /\ completed' = TRUE
            /\ errored' = TRUE
            /\ CallCleanup(callStack)
    /\ UNCHANGED <<observer, subscription, cleanup, produced, delivered,
                   dropped>>
    /\ UNCHANGED beyondObservable

\* new Observable(subscribeFn), and the observer that will subscribe.
InitObservable ==
    /\ observer \in ObserverKinds
    /\ subscription = "none"
    /\ completed = FALSE
    /\ errored = FALSE
    /\ cleanup = "undefined"
    /\ callStack = <<>>
    /\ produced = 0
    /\ delivered = [next |-> 0, error |-> 0, complete |-> 0]
    /\ dropped = 0
    /\ cleanups = 0
    /\ unsubscribed = FALSE
    /\ QueueAtRest
    /\ CacheAtRest
    /\ EmitterAtRest
    /\ MachineAtRest
    /\ TakeAtRest
    /\ DebounceAtRest
    /\ MemoAtRest
    /\ ContainerAtRest

SubscribeEnds == \E fn \in CleanupKinds : SubscribeReturns(fn)

NextObservable ==
    \/ Subscribe
    \/ SubscribeEnds
    \/ SubscriberNext
    \/ SubscriberError
    \/ SubscriberComplete
    \/ ObserverReturn
    \/ Unsubscribe

SpecObservable == InitObservable /\ [][NextObservable]_observableVars

\* ------------------------------------------------------ Observable.take
\* Everything take() and its subscriptions leave alone.
beyondTake == <<vars, lastRead, cacheVars, emitterVars, machineVars,
    observableVars,
    debounceVars,
    memoVars,
    containerVars>>

\* subscriber.complete() / subscriber.error() of the outer subscription:
\* ignored once closed; else the observer is told and the cleanup
\* `() => subscription.unsubscribe()` runs if subscribe() has assigned it.
OuterEnd(r, kind) ==
    IF r.outerClosed
    THEN r
    ELSE [r EXCEPT !.outerClosed = TRUE,
                   !.ended = kind,
                   !.innerClosed = IF r.phase = "returned" THEN TRUE ELSE @]

\* subscriber.next(value) of the outer subscription.
OuterNext(r, value) ==
    IF r.outerClosed THEN r ELSE [r EXCEPT !.got = Append(@, value)]

\* takeObservable.subscribe(observer): the function given to
\* new Observable subscribes to the source, whose subscribe function starts.
TakeSubscribe(s) ==
    /\ takers[s].phase = "none"
    /\ takers' = [takers EXCEPT ![s].phase = "subscribing"]
    /\ UNCHANGED <<takeCount, step>>
    /\ UNCHANGED beyondTake

\* this.subscribe(...) has returned the inner subscription, and the outer
\* subscribe() gets its cleanup and returns.
TakeSubscribeReturns(s) ==
    /\ takers[s].phase = "subscribing"
    /\ takers' = [takers EXCEPT ![s].phase = "returned"]
    /\ UNCHANGED <<takeCount, step>>
    /\ UNCHANGED beyondTake

\* The source calls next(value) on the subscriber of subscription s; the
\* values it sends to a subscription are numbered 1, 2, 3, ...
SourceNext(s) ==
    /\ takers[s].phase # "none"
    /\ takers[s].sent < MaxEmit
    /\ LET value == takers[s].sent + 1
           r == [takers[s] EXCEPT !.sent = value]
       IN IF r.innerClosed
          THEN /\ takers' = [takers EXCEPT ![s] = r]
               /\ UNCHANGED step
          ELSE IF step > takeCount
               THEN /\ takers' = [takers EXCEPT ![s] = OuterEnd(r, "complete")]
                    /\ UNCHANGED step
               ELSE /\ takers' = [takers EXCEPT ![s] = OuterNext(r, value)]
                    /\ step' = step + 1
    /\ UNCHANGED takeCount
    /\ UNCHANGED beyondTake

\* The source calls complete() or error(err) on the subscriber of s.
SourceEnds(s, kind) ==
    /\ takers[s].phase # "none"
    /\ ~takers[s].released
    /\ LET r == [takers[s] EXCEPT !.released = TRUE]
       IN takers' = [takers EXCEPT ![s] =
              IF r.innerClosed
              THEN r
              ELSE OuterEnd([r EXCEPT !.innerClosed = TRUE], kind)]
    /\ UNCHANGED <<takeCount, step>>
    /\ UNCHANGED beyondTake

\* unsubscribe() of the subscription that subscribe() returned.
TakeUnsubscribe(s) ==
    /\ takers[s].phase = "returned"
    /\ ~takers[s].released
    /\ LET r == [takers[s] EXCEPT !.released = TRUE]
       IN takers' = [takers EXCEPT ![s] =
              IF r.outerClosed
              THEN r
              ELSE [r EXCEPT !.outerClosed = TRUE, !.innerClosed = TRUE]]
    /\ UNCHANGED <<takeCount, step>>
    /\ UNCHANGED beyondTake

\* source.take(count)
InitTake ==
    /\ takeCount \in 0..MaxTake
    /\ step = 1
    /\ takers = [s \in TakerIds |-> NoTaker]
    /\ QueueAtRest
    /\ CacheAtRest
    /\ EmitterAtRest
    /\ MachineAtRest
    /\ ObservableAtRest
    /\ DebounceAtRest
    /\ MemoAtRest
    /\ ContainerAtRest

SubscribeTaker == \E s \in TakerIds : TakeSubscribe(s)
TakerSubscribed == \E s \in TakerIds : TakeSubscribeReturns(s)
SourceEmits == \E s \in TakerIds : SourceNext(s)
SourceCompletes == \E s \in TakerIds : SourceEnds(s, "complete")
SourceFails == \E s \in TakerIds : SourceEnds(s, "error")
UnsubscribeTaker == \E s \in TakerIds : TakeUnsubscribe(s)

NextTake ==
    \/ SubscribeTaker
    \/ TakerSubscribed
    \/ SourceEmits
    \/ SourceCompletes
    \/ SourceFails
    \/ UnsubscribeTaker

SpecTake == InitTake /\ [][NextTake]_takeVars

\* -------------------------------------------------------------- debounce
\* Everything the debounced function leaves alone.
beyondDebounce == <<vars, lastRead, cacheVars, emitterVars, machineVars,
    observableVars, takeVars,
    memoVars,
    containerVars>>

\* A clearTimeout that clears nothing.
ClearTimeoutNothing(table, id) == table

\* clearTimeout(id): no effect for undefined and for a timer that has run.
ClearTimeout(table, id) ==
    [i \in TimerIds |-> IF i = id THEN [table[i] EXCEPT !.pending = FALSE]
                                  ELSE table[i]]

\* setTimeout(callback, delay) hands out ids 1, 2, 3, ...
SetTimeout(table, id, args) ==
    [table EXCEPT ![id] = [pending |-> TRUE, left |-> delay, args |-> args]]

\* debounced(...args)
Debounced(args) ==
    /\ timeoutId < MaxArm
    /\ timeoutId' = timeoutId + 1
    /\ timers' = SetTimeout(ClearTimeout(timers, timeoutId), timeoutId + 1, args)
    /\ sinceCall' = 0
    /\ lastArgs' = args
    /\ quiet' = "called"
    /\ UNCHANGED <<delay, invocations>>
    /\ UNCHANGED beyondDebounce

\* debounced.cancel()
Cancel ==
    /\ timers' = ClearTimeout(timers, timeoutId)
    /\ quiet' = IF quiet = "called" THEN "cancelled" ELSE quiet
    /\ UNCHANGED <<delay, timeoutId, sinceCall, lastArgs, invocations>>
    /\ UNCHANGED beyondDebounce

\* One tick of the clock passes; a timer that is due may still wait for
\* its turn in the event loop.
Tick ==
    /\ sinceCall <= MaxDelay
    /\ timers' = [i \in TimerIds |->
                     IF timers[i].pending /\ timers[i].left > 0
                     THEN [timers[i] EXCEPT !.left = @ - 1]
                     ELSE timers[i]]
    /\ sinceCall' = sinceCall + 1
    /\ UNCHANGED <<delay, timeoutId, lastArgs, quiet, invocations>>
    /\ UNCHANGED beyondDebounce

\* The environment runs the callback of a timer that is due:
\* fn.bind(context)(...args)
TimerFires(i) ==
    /\ timers[i].pending
    /\ timers[i].left = 0
    /\ timers' = [timers EXCEPT ![i].pending = FALSE]
    /\ invocations' = Append(invocations, timers[i].args)
    /\ quiet' = "invoked"
    /\ UNCHANGED <<delay, timeoutId, sinceCall, lastArgs>>
    /\ UNCHANGED beyondDebounce

\* debounce(fn, delay)
InitDebounce ==
    /\ delay \in 0..MaxDelay
    /\ timeoutId = 0
    /\ timers = [i \in TimerIds |-> NoTimer]
    /\ sinceCall = 0
    /\ lastArgs = "p"
    /\ quiet = "never"
    /\ invocations = <<>>
    /\ QueueAtRest
    /\ CacheAtRest
    /\ EmitterAtRest
    /\ MachineAtRest
    /\ ObservableAtRest
    /\ TakeAtRest
    /\ MemoAtRest
    /\ ContainerAtRest

CallDebounced == \E args \in CallArgs : Debounced(args)
RunTimer == \E i \in TimerIds : TimerFires(i)

NextDebounce ==
    \/ CallDebounced
    \/ Cancel
    \/ Tick
    \/ RunTimer

SpecDebounce == InitDebounce /\ [][NextDebounce]_debounceVars

\* --------------------------------------------------------------- memoize
\* Everything the memoized function leaves alone.
beyondMemo == <<vars, lastRead, cacheVars, emitterVars, machineVars,
    observableVars, takeVars, debounceVars,
    containerVars>>

\* A test that finds every cached entry too old.
FreshNever(entry, t) == FALSE

\* Date.now() - cachedValue.timestamp < ttl
Fresh(entry, t) == t - entry.timestamp < ttl

\* The Map after cache.set(key, {value, timestamp: Date.now()}) and
\* `if (cache.size > maxSize) cache.delete(cache.keys().next().value)`.
Memoized(m, k, v, t) ==
    LET set == MapSet(m, k, [value |-> v, timestamp |-> t])
    IN IF Len(set) > maxSize THEN MapDelete(set, set[1].key) ELSE set

\* memoized(...args) with keyGenerator(args) = k: returns the cached value,
\* or drops the entry that is too old and calls fn. The value fn returns
\* is the number of its invocation, so that no two invocations agree.
MemoCall(k) ==
    IF MapHas(memo, k) /\ Fresh(MapGet(memo, k), now)
    THEN /\ memoLast' = [key |-> k, value |-> MapGet(memo, k).value,
                         invoked |-> FALSE]
         /\ UNCHANGED <<maxSize, ttl, memo, now, memoStack, fnCalls>>
         /\ UNCHANGED beyondMemo
    ELSE /\ fnCalls < MaxFn
         /\ Len(memoStack) < MaxDepth
         /\ memo' = IF MapHas(memo, k) THEN MapDelete(memo, k) ELSE memo
         /\ fnCalls' = fnCalls + 1
         /\ memoStack' = Append(memoStack, [key |-> k, value |-> fnCalls + 1])
         /\ UNCHANGED <<maxSize, ttl, now, memoLast>>
         /\ UNCHANGED beyondMemo

\* fn returns: the value is cached, the first entry of the Map is deleted
\* if there are more than maxSize, and the call returns the value.
MemoReturn ==
    /\ memoStack # <<>>
    /\ LET top == memoStack[Len(memoStack)]
       IN /\ memo' = Memoized(memo, top.key, top.value, now)
          /\ memoLast' = [key |-> top.key, value |-> top.value,
                          invoked |-> TRUE]
    /\ memoStack' = SubSeq(memoStack, 1, Len(memoStack) - 1)
    /\ UNCHANGED <<maxSize, ttl, now, fnCalls>>
    /\ UNCHANGED beyondMemo

\* fn throws: the call ends with the exception and caches nothing.
MemoThrows ==
    /\ memoStack # <<>>
    /\ memoStack' = SubSeq(memoStack, 1, Len(memoStack) - 1)
    /\ UNCHANGED <<maxSize, ttl, memo, now, fnCalls, memoLast>>
    /\ UNCHANGED beyondMemo

\* memoized.cache.clear()
MemoClear ==
    /\ memo' = <<>>
    /\ UNCHANGED <<maxSize, ttl, now, memoStack, fnCalls, memoLast>>
    /\ UNCHANGED beyondMemo

\* memoized.cache.delete(key)
MemoDelete(k) ==
    /\ memo' = MapDelete(memo, k)
    /\ UNCHANGED <<maxSize, ttl, now, memoStack, fnCalls, memoLast>>
    /\ UNCHANGED beyondMemo

\* A tick of the clock passes.
MemoTick ==
    /\ now < MaxClock
    /\ now' = now + 1
    /\ UNCHANGED <<maxSize, ttl, memo, memoStack, fnCalls, memoLast>>
    /\ UNCHANGED beyondMemo

\* memoize(fn, {maxSize, ttl})
InitMemo ==
    /\ maxSize \in 0..MaxMemo
    /\ ttl \in 0..MaxTtl
    /\ memo = <<>>
    /\ now = 0
    /\ memoStack = <<>>
    /\ fnCalls = 0
    /\ memoLast = NoMemoCall
    /\ QueueAtRest
    /\ CacheAtRest
    /\ EmitterAtRest
    /\ MachineAtRest
    /\ ObservableAtRest
    /\ TakeAtRest
    /\ DebounceAtRest
    /\ ContainerAtRest

CallMemoized == \E k \in MemoKeys : MemoCall(k)
DeleteMemo == \E k \in MemoKeys : MemoDelete(k)

NextMemo ==
    \/ CallMemoized
    \/ MemoReturn
    \/ MemoThrows
    \/ MemoClear
    \/ DeleteMemo
    \/ MemoTick

SpecMemo == InitMemo /\ [][NextMemo]_memoVars

\* ------------------------------------------------------------- Container
\* Everything the container leaves alone.
beyondContainer == <<vars, lastRead, cacheVars, emitterVars, machineVars,
    observableVars, takeVars, debounceVars, memoVars>>

\* `isSingleton && registration.instance`: null and falsy values fail.
Truthy(instance) == instance >= 1

\* resolve(name, resolutionStack) on the container c = [registry, ids,
\* made, returned]: the container afterwards, whether it returned (ok) or
\* threw, and the value it returned.
RECURSIVE ResolveIn(_, _, _)
RECURSIVE ResolveAll(_, _, _)

\* registration.dependencies.map(dep => this.resolve(dep, resolutionStack)):
\* one after the other; the first that throws ends the call.
ResolveAll(c, deps, resolutionStack) ==
    IF deps = <<>>
    THEN [c |-> c, ok |-> TRUE]
    ELSE LET first == ResolveIn(c, Head(deps), resolutionStack)
         IN IF ~first.ok
            THEN [c |-> first.c, ok |-> FALSE]
            ELSE ResolveAll(first.c, Tail(deps), resolutionStack)

ResolveIn(c, name, resolutionStack) ==
    LET r == c.registry[name]
        returns(cc, value) ==
            [c |-> [cc EXCEPT !.returned[name] = @ \cup {value}],
             ok |-> TRUE, value |-> value]
        throws(cc) == [c |-> cc, ok |-> FALSE, value |-> 0]
    IN IF r.type = "none" THEN throws(c)
       ELSE IF name \in resolutionStack THEN throws(c)
       ELSE IF r.type = "instance" THEN returns(c, r.instance)
       ELSE IF r.singleton /\ Truthy(r.instance) THEN returns(c, r.instance)
       ELSE LET d == ResolveAll(c, r.deps, resolutionStack \cup {name})
            IN IF ~d.ok
               THEN throws(d.c)
               ELSE LET object == r.type = "class" \/ r.yields = "object"
                        value == IF object THEN d.c.ids + 1 ELSE Falsy
                        after == [d.c EXCEPT
                                     !.ids = IF object THEN @ + 1 ELSE @,
                                     !.made[name] = @ + 1,
                                     !.registry[name].instance =
                                         IF r.singleton THEN value ELSE @]
                    IN returns(after, value)

\* container.register(name, Class, dependencies, options) and
\* container.registerFactory(name, factory, dependencies, options)
Register(name, type, deps, singleton, yields) ==
    /\ registry' = [registry EXCEPT ![name] =
                       [type |-> type, deps |-> deps, singleton |-> singleton,
                        instance |-> 0, yields |-> yields]]
    /\ made' = [made EXCEPT ![name] = 0]
    /\ returned' = [returned EXCEPT ![name] = {}]
    /\ UNCHANGED <<ids, resolved, containerLast>>
    /\ UNCHANGED beyondContainer

\* container.registerInstance(name, instance), with a new object
RegisterInstance(name) ==
    /\ ids < MaxMade
    /\ registry' = [registry EXCEPT ![name] =
                       [type |-> "instance", deps |-> <<>>,
                        singleton |-> FALSE, instance |-> ids + 1,
                        yields |-> "object"]]
    /\ ids' = ids + 1
    /\ made' = [made EXCEPT ![name] = 0]
    /\ returned' = [returned EXCEPT ![name] = {}]
    /\ UNCHANGED <<resolved, containerLast>>
    /\ UNCHANGED beyondContainer

\* container.resolve(name)
Resolve(name) ==
    /\ resolved < MaxResolve
    /\ LET out == ResolveIn([registry |-> registry, ids |-> ids,
                             made |-> made, returned |-> returned], name, {})
       IN /\ out.c.ids <= MaxMade
          /\ registry' = out.c.registry
          /\ ids' = out.c.ids
          /\ made' = out.c.made
          /\ returned' = out.c.returned
          /\ containerLast' = [name |-> name, ok |-> out.ok,
                               value |-> out.value]
    /\ resolved' = resolved + 1
    /\ UNCHANGED beyondContainer

\* container.unregister(name)
Unregister(name) ==
    /\ registry' = [registry EXCEPT ![name] = Unregistered]
    /\ made' = [made EXCEPT ![name] = 0]
    /\ returned' = [returned EXCEPT ![name] = {}]
    /\ UNCHANGED <<ids, resolved, containerLast>>
    /\ UNCHANGED beyondContainer

\* container.clear()
ClearRegistry ==
    /\ registry' = [n \in ServiceNames |-> Unregistered]
    /\ made' = [n \in ServiceNames |-> 0]
    /\ returned' = [n \in ServiceNames |-> {}]
    /\ UNCHANGED <<ids, resolved, containerLast>>
    /\ UNCHANGED beyondContainer

\* new Container()
InitContainer ==
    /\ registry = [n \in ServiceNames |-> Unregistered]
    /\ ids = 0
    /\ made = [n \in ServiceNames |-> 0]
    /\ returned = [n \in ServiceNames |-> {}]
    /\ resolved = 0
    /\ containerLast = [name |-> "a", ok |-> FALSE, value |-> 0]
    /\ QueueAtRest
    /\ CacheAtRest
    /\ EmitterAtRest
    /\ MachineAtRest
    /\ ObservableAtRest
    /\ TakeAtRest
    /\ DebounceAtRest
    /\ MemoAtRest

RegisterClass ==
    \E name \in ServiceNames, deps \in DependencyLists, singleton \in BOOLEAN :
        Register(name, "class", deps, singleton, "object")
RegisterFactory ==
    \E name \in ServiceNames, deps \in DependencyLists, singleton \in BOOLEAN,
       yields \in FactoryYields :
        Register(name, "factory", deps, singleton, yields)
RegisterObject == \E name \in ServiceNames : RegisterInstance(name)
ResolveName == \E name \in ServiceNames : Resolve(name)
UnregisterName == \E name \in ServiceNames : Unregister(name)

NextContainer ==
    \/ RegisterClass
    \/ RegisterFactory
    \/ RegisterObject
    \/ ResolveName
    \/ UnregisterName
    \/ ClearRegistry

SpecContainer == InitContainer /\ [][NextContainer]_containerVars

\* ---------------------------------------------------------------- claims
Admitted(t) == handle[t] # "unused"
InBacklog(t) == t \in Ids(queue)
WasDispatched(t) == stage[t] # "none"
Cleared(t) == Admitted(t) /\ ~InBacklog(t) /\ ~WasDispatched(t)
Settled(t) == handle[t] \in {"fulfilled", "rejected"}
Num(opt) == opt[1]

\* C1: pending (the running count) never exceeds the configured concurrency.
ThmC1 == running <= concurrency

WitC1 == concurrency = 2 /\ running = 2 /\ Len(queue) >= 1

\* The priority a task was admitted with, in the backlog or dispatched.
GivenOfTask(t) ==
    IF \E i \in 1..Len(order) : order[i].id = t
    THEN order[CHOOSE i \in 1..Len(order) : order[i].id = t].given
    ELSE given[t]

\* The admitted priorities of the dispatched entries, in dispatch order.
DispatchedGivens == [i \in 1..Len(order) |-> Num(order[i].given)]

\* concurrency 1, default options, exactly three add() calls with the
\* priorities 1, 5, 3 and no other method call.
ScenarioC2 ==
    /\ concurrency = 1
    /\ autoStart
    /\ onlyAdds
    /\ NextTaskId = 4
    /\ GivenOfTask(1) = Given(1)
    /\ GivenOfTask(2) = Given(5)
    /\ GivenOfTask(3) = Given(3)

\* C2 as stated: with concurrency 1 and default options, three add() calls
\* with the priorities 1, 5, 3 are dispatched in the order 5, 3, 1.
CexC2 == (ScenarioC2 /\ Len(order) = 3) => DispatchedGivens = <<5, 3, 1>>

\* C2 as amended: in that scenario the tasks are dispatched in the order
\* 1, 5, 3: the first add() finds a free slot and dispatches its own task,
\* and only the two tasks that wait are dispatched by priority.
ThmC2 == ScenarioC2 => DispatchedGivens = SubSeq(<<1, 5, 3>>, 1, Len(order))

WitC2 == ScenarioC2 /\ Len(order) = 3 /\ \A t \in 1..3 : stage[t] = "finished"

\* Nothing is left to run by itself: no call in progress, no pending microtask.
Quiescent ==
    stack = <<>> /\ \A t \in TaskIds : stage[t] \in {"none", "finished"}

\* C3 as stated, on the states in which nothing is left to run: every task
\* admitted and not removed by clear() has its completion handle settled.
CexC3 ==
    Quiescent => \A t \in TaskIds : (Admitted(t) /\ ~Cleared(t)) => Settled(t)

\* C3 as amended: the completion handle of every task that is dispatched is
\* eventually settled.
ThmC3 ==
    \A t \in TaskIds :
        (stage[t] = "scheduled") ~> (Settled(t) /\ settles[t] >= 1)

WitC3 ==
    /\ paused
    /\ Len(queue) >= 1
    /\ \E t \in TaskIds : stage[t] = "finished" /\ handle[t] = "rejected"

\* C4: no completion handle is settled more than once: resolve and reject
\* together are invoked at most once per admitted task, and exactly once as
\* soon as the handle is settled.
ThmC4 ==
    \A t \in TaskIds :
        /\ settles[t] <= 1
        /\ (settles[t] = 1) <=> Settled(t)

WitC4 ==
    \E t, u \in TaskIds :
        /\ handle[t] = "fulfilled" /\ settles[t] = 1 /\ stage[t] = "finished"
        /\ handle[u] = "rejected" /\ settles[u] = 1 /\ stage[u] = "finished"

\* C5 as stated: at every dispatch no entry with a numerically higher
\* admitted priority is left waiting: neither one that stays in the backlog
\* nor one that the same dispatch loop starts later.
CexC5 ==
    [][\A i \in (Len(order) + 1)..Len(order') :
          /\ \A j \in 1..Len(queue') :
                Num(given'[queue'[j].id]) <= Num(order'[i].given)
          /\ \A k \in (i + 1)..Len(order') :
                Num(order'[k].given) <= Num(order'[i].given)]_vars

\* C6: while the queue is paused only start() dispatches: neither add() nor
\* the settlement of a running task starts an entry of the backlog.
ThmC6 == [][(paused /\ order' # order) => Start]_vars

WitC6 ==
    /\ paused
    /\ autoStart
    /\ concurrency = 1
    /\ Len(queue) >= 2
    /\ running = 0
    /\ Len(order) = 1
    /\ stage[order[1].id] = "finished"

\* The place of entry t in the backlog (0 when it is not there).
Position(t) ==
    IF InBacklog(t) THEN CHOOSE i \in 1..Len(queue) : queue[i].id = t ELSE 0

\* start() clears paused and dispatches before it returns.
StartFillsSlots ==
    [][Start => (~paused' /\ (queue' = <<>> \/ running' = concurrency))]_vars

\* C7 as stated: start() clears paused and returns with an empty backlog or
\* with pending = concurrency, and every entry that start() left in the
\* backlog is eventually dispatched unless pause() or clear() intervenes.
CexC7 ==
    /\ StartFillsSlots
    /\ \A t \in TaskIds :
          (t \in sinceStart) ~> (~InBacklog(t) \/ paused)

\* An add() of a task of higher priority than an entry of the backlog: the
\* sort moves that entry back by one place.
Overtaking == \E t \in Ids(queue) : Position(t)' > Position(t)

\* C7 as amended: the same, provided that only finitely many tasks of a
\* higher priority are admitted after start(): each of them is dispatched
\* before the entries that wait, so an endless stream of them postpones an
\* entry for ever.
ThmC7 ==
    /\ StartFillsSlots
    /\ <>[][~Overtaking]_vars =>
          \A t \in TaskIds : (t \in sinceStart) ~> (~InBacklog(t) \/ paused)

WitC7 ==
    /\ ~autoStart
    /\ concurrency = 2
    /\ running = 2
    /\ sinceStart # {}
    /\ ~paused

\* Callback c waits in a forEach that is in progress.
InFrame(c) == \E i \in 1..Len(stack) : c \in Range(stack[i].todo)

\* C8: a callback registered while the queue is drained is invoked by that
\* onEmpty call (until then it waits in the forEach the call started) and
\* is never invoked a second time.
ThmC8 ==
    \A c \in CallbackIds :
        regAt[c] = "drained" => (fired[c] = 1 \/ (fired[c] = 0 /\ InFrame(c)))

WitC8 ==
    /\ regAt[1] = "drained" /\ fired[1] = 1
    /\ regAt[2] = "outstanding" /\ fired[2] = 1
    /\ stack = <<>>

\* C9 as stated: a callback registered while tasks are outstanding is
\* invoked at most once, and never while an admitted task is in the backlog
\* or dispatched and not yet settled.
CexC9 ==
    [][\A c \in CallbackIds :
          (regAt[c] = "outstanding" /\ fired'[c] # fired[c]) =>
              /\ fired'[c] = 1
              /\ \A t \in TaskIds :
                    ~InBacklog(t) /\ stage[t] \notin {"scheduled", "called"}]_vars

\* C10 as stated: every invocation of a drain callback happens with an empty
\* backlog and pending = 0, and no registration is invoked twice.
CexC10 ==
    [][\A c \in CallbackIds :
          fired'[c] > fired[c] =>
              (Len(queue) = 0 /\ running = 0 /\ fired[c] = 0)]_vars

\* The queue is drained and no call of a method or callback is in progress.
DrainedAtRest == Len(queue) = 0 /\ running = 0 /\ stack = <<>>

\* C11 as stated: whenever the queue is drained (empty backlog, pending 0),
\* whatever operation drained it, every drain callback registered before
\* that moment has been invoked.
CexC11 ==
    \A c \in CallbackIds :
        (regAt[c] # "unused" /\ DrainedAtRest) => fired[c] >= 1

\* C12: clear() leaves size at 0, and an entry it dropped is never
\* dispatched afterwards and its completion handle is never resolved or
\* rejected, whatever is called later.
ThmC12 ==
    [][/\ Clear =>
             /\ Len(queue') = 0
             /\ \A t \in Ids(queue) : Cleared(t)' /\ handle'[t] = "pending"
       /\ \A t \in TaskIds :
             Cleared(t) =>
                 /\ Cleared(t)'
                 /\ handle'[t] = "pending"
                 /\ settles'[t] = 0
                 /\ t \notin Ids(order')]_vars

WitC12 ==
    /\ Cleared(1)
    /\ Cleared(2)
    /\ stage[3] = "finished"
    /\ Settled(3)
    /\ handle[1] = "pending"
    /\ handle[2] = "pending"

\* The dispatched entries whose finally callback has not run yet.
InFlight == {t \in TaskIds : stage[t] \in {"scheduled", "called", "settled"}}

\* C13: clear() changes the backlog only: pending, isPaused and the
\* registered drain callbacks are as before it, and a task that is running
\* still settles its handle and takes exactly one off pending when it
\* finishes.
ThmC13 ==
    /\ [][Clear => UNCHANGED <<running, paused, emptyCallbacks, stage,
                               handle, settles, captured>>]_vars
    /\ [](running = Cardinality(InFlight))
    /\ \A t \in TaskIds :
          (t \in InFlight) ~> (stage[t] = "finished" /\ Settled(t))

WitC13 ==
    /\ Cleared(2)
    /\ stage[1] = "called"
    /\ running = 1
    /\ emptyCallbacks # <<>>

\* The microtask that settles the handle of a failing task t runs.
FailureSettles(t) ==
    /\ stage[t] = "called"
    /\ stage'[t] = "settled"
    /\ captured[t] \in {"rejects", "throws", "notCallable"}

\* The finally callback of a task t whose handle was rejected runs.
FailureFinishes(t) ==
    /\ stage[t] = "settled"
    /\ stage'[t] = "finished"
    /\ handle[t] = "rejected"

\* C14: when a task fails (a synchronous throw or a rejecting promise) only
\* its own handle is rejected; pending goes down by one for it, no other
\* entry of the backlog or in flight is removed or settled because of it,
\* and the entries queued behind it are still dispatched.
ThmC14 ==
    [][\A t \in TaskIds :
          /\ FailureSettles(t) =>
                /\ handle'[t] = "rejected"
                /\ settles'[t] = 1
                /\ \A u \in TaskIds \ {t} :
                      handle'[u] = handle[u] /\ stage'[u] = stage[u]
                /\ queue' = queue
                /\ running' = running
          /\ FailureFinishes(t) =>
                /\ handle' = handle
                /\ running' = running - 1 + (Len(order') - Len(order))
                /\ \A u \in TaskIds \ {t} :
                      \/ stage'[u] = stage[u]
                      \/ InBacklog(u) /\ stage'[u] = "scheduled"
                /\ Ids(queue') = Ids(queue) \ Ids(SubSeq(order', Len(order) + 1,
                                                         Len(order')))
                /\ ~paused => (queue' = <<>> \/ running' = concurrency)]_vars

WitC14 ==
    /\ concurrency = 1
    /\ onlyAdds
    /\ handle[1] = "rejected"
    /\ stage[1] = "finished"
    /\ handle[2] = "fulfilled"
    /\ stage[2] = "finished"
    /\ order[1].id = 1
    /\ order[2].id = 2

\* How often entry t occurs in the backlog, and in the dispatch order.
BacklogCount(t) == Cardinality({i \in 1..Len(queue) : queue[i].id = t})
DispatchCount(t) == Cardinality({i \in 1..Len(order) : order[i].id = t})

\* The places an admitted entry is in.
Places(t) ==
    (IF InBacklog(t) THEN {"backlog"} ELSE {})
    \cup (IF DispatchCount(t) > 0 /\ ~Settled(t) THEN {"running"} ELSE {})
    \cup (IF Settled(t) THEN {"settled"} ELSE {})
    \cup (IF Cleared(t) THEN {"cleared"} ELSE {})

\* C15: every admitted entry is in exactly one of the backlog, the
\* dispatched and running entries, the settled entries (or was dropped by
\* clear()); none is twice in the backlog and none is dispatched twice.
ThmC15 ==
    \A t \in TaskIds :
        Admitted(t) =>
            /\ Cardinality(Places(t)) = 1
            /\ BacklogCount(t) <= 1
            /\ DispatchCount(t) <= 1
            /\ WasDispatched(t) <=> DispatchCount(t) = 1

WitC15 ==
    \E t, u, v \in TaskIds :
        /\ Places(t) = {"backlog"}
        /\ Places(u) = {"running"}
        /\ Places(v) = {"settled"}

Unsettled == {t \in TaskIds : WasDispatched(t) /\ handle[t] = "pending"}

\* C17 as stated: in every state user code can observe (a task body, a
\* continuation of a completion handle, a drain callback), pending equals
\* the number of dispatched tasks whose handle is not settled yet.
CexC17 == UserCode => running = Cardinality(Unsettled)

\* A call of add() returns; the finally callback of a settled task has run.
AddReturns == \E t \in TaskIds : handle[t] = "unused" /\ handle'[t] = "pending"
SettlementProcessed ==
    \E t \in TaskIds : stage[t] = "settled" /\ stage'[t] = "finished"

\* No entry waits in the backlog of a queue that is not paused while a slot
\* is free.
NoIdleSlot == paused \/ queue = <<>> \/ running = concurrency

\* C18 as stated: after any add() returns and after any settlement is
\* processed, for every constructor configuration, a queue that is not
\* paused has an empty backlog or pending equal to concurrency.
CexC18 == [][(AddReturns \/ SettlementProcessed) => NoIdleSlot']_vars

\* C18, amended: the same after every settlement, and after every add() on
\* a queue constructed with autoStart enabled.
ThmC18 ==
    [][((AddReturns /\ autoStart) \/ SettlementProcessed) => NoIdleSlot']_vars

WitC18 ==
    /\ autoStart
    /\ ~paused
    /\ concurrency = 1
    /\ running = 1
    /\ stage[1] = "finished"
    /\ stage[2] = "scheduled"
    /\ InBacklog(3)

\* C19: add() on a queue with autoStart enabled, not paused and with
\* pending below concurrency dispatches synchronously: when it returns its
\* entry has left the backlog and pending is one higher.
ThmC19 ==
    [][\A t \in TaskIds :
          (/\ handle[t] = "unused"
           /\ handle'[t] = "pending"
           /\ autoStart
           /\ ~paused
           /\ running < concurrency)
          => (/\ ~InBacklog(t)'
              /\ stage'[t] = "scheduled"
              /\ Len(order') = Len(order) + 1
              /\ order'[Len(order')].id = t
              /\ running' = running + 1)]_vars

WitC19 ==
    /\ autoStart
    /\ onlyAdds
    /\ concurrency = 2
    /\ running = 2
    /\ queue = <<>>
    /\ stage[1] = "called"
    /\ stage[2] = "scheduled"

\* C20: the tasks running when pause() is called run to completion while
\* the queue stays paused: each settles its handle and takes one off
\* pending, so that pending reaches 0 without a start(), and their
\* completion leaves the backlog as it is.
ThmC20 ==
    /\ \A t \in TaskIds :
          (paused /\ t \in InFlight)
              ~> ((stage[t] = "finished" /\ Settled(t)) \/ ~paused)
    /\ paused ~> (running = 0 \/ ~paused)
    /\ [][(paused /\ (Run \/ Settle \/ Finish)) => queue' = queue]_vars
    /\ [][(paused /\ SettlementProcessed) => running' = running - 1]_vars

WitC20 ==
    /\ autoStart
    /\ concurrency = 2
    /\ paused
    /\ running = 1
    /\ stage[1] = "finished"
    /\ Settled(1)
    /\ stage[2] = "called"
    /\ InBacklog(3)

\* add() admits a non-callable as the task of entry t.
AdmitsNonCallable(t) ==
    /\ handle[t] = "unused"
    /\ handle'[t] = "pending"
    /\ \/ captured'[t] = "notCallable"
       \/ \E i \in 1..Len(queue') :
             queue'[i].id = t /\ queue'[i].task = "notCallable"

\* C22: a non-callable task is not rejected by add(); once its entry is
\* dispatched the failure is a rejection of that entry's handle only,
\* pending goes down by one for it and the queue goes on dispatching.
ThmC22 ==
    [][\A t \in TaskIds :
          /\ AdmitsNonCallable(t) =>
                /\ handle'[t] = "pending"
                /\ settles'[t] = 0
                /\ InBacklog(t)' \/ stage'[t] = "scheduled"
                /\ \A u \in TaskIds \ {t} : handle'[u] = handle[u]
          /\ (captured[t] = "notCallable" /\ stage[t] = "scheduled"
                 /\ stage'[t] = "called") =>
                /\ handle' = handle
                /\ running' = running
          /\ (captured[t] = "notCallable" /\ stage[t] = "called"
                 /\ stage'[t] = "settled") =>
                /\ handle'[t] = "rejected"
                /\ settles'[t] = 1
                /\ \A u \in TaskIds \ {t} : handle'[u] = handle[u]
                /\ UNCHANGED <<queue, running, paused>>
          /\ (handle[t] = "rejected" /\ stage[t] = "settled"
                 /\ stage'[t] = "finished") =>
                /\ running' + Len(order) = running - 1 + Len(order')
                /\ NoIdleSlot']_vars

WitC22 ==
    /\ concurrency = 1
    /\ captured[2] = "notCallable"
    /\ stage[2] = "called"
    /\ handle[2] = "pending"
    /\ stage[1] = "finished"
    /\ InBacklog(3)

\* A getter of the queue is read.
GetterRead == lastRead' # lastRead

\* C21: reading size, pending or isPaused changes nothing: not the backlog,
\* the running count, the paused flag or the drain callbacks, and it starts
\* no task and invokes no drain callback; it returns the value of the field.
ThmC21 ==
    [][GetterRead =>
          /\ UNCHANGED <<queue, running, paused, emptyCallbacks>>
          /\ UNCHANGED <<stage, order, fired, stack, handle>>
          /\ lastRead' \in {<<"size", Len(queue)>>, <<"pending", running>>,
                             <<"isPaused", paused>>}]_<<vars, lastRead>>

WitC21 ==
    /\ lastRead = <<"size", 2>>
    /\ Len(queue) = 2
    /\ running = 1
    /\ emptyCallbacks # <<>>
    /\ stack # <<>>

\* The keys of the cache, and a call of put that has just returned.
KeySet(m) == {m[i].key : i \in 1..Len(m)}
PutReturns == cacheLast'.op = "put"

\* C23: size never exceeds the capacity given at construction, and a put
\* of a key that is cached, at full capacity, replaces its value and evicts
\* no key.
ThmC23 ==
    /\ [](Len(cache) <= capacity)
    /\ [][(PutReturns /\ cacheLast'.had /\ Len(cache) = capacity) =>
              /\ KeySet(cache') = KeySet(cache)
              /\ MapGet(cache', cacheLast'.key) = cacheLast'.value
              /\ \A j \in KeySet(cache) \ {cacheLast'.key} :
                    MapGet(cache', j) = MapGet(cache, j)]_cacheVars

WitC23 ==
    /\ capacity = 3
    /\ Len(cache) = 3
    /\ cacheLast # <<>>
    /\ cacheLast.op = "put"
    /\ cacheLast.had
    /\ cacheLast.value = "y"
    /\ \A i \in 1..2 : cache[i].value = "x"

\* C24: keys() lists the cached keys from the least to the most recently
\* used, where a hit of get and a put refresh a key and has() does not; a
\* put of a new key at full capacity evicts the least recently used key,
\* the first of that order, and no other.
ThmC24 ==
    /\ [](\A i \in 1..Len(cache) : recency[cache[i].key] = i)
    /\ [][cacheLast'.op = "keys" =>
              /\ cacheLast'.result = MapKeys(cache)
              /\ \A i \in 1..Len(cache) :
                    recency[cacheLast'.result[i]] = i]_cacheVars
    /\ [][(PutReturns /\ ~cacheLast'.had /\ Len(cache) = capacity) =>
              LET listed == Append(MapKeys(cache), cacheLast'.key)
              IN /\ KeySet(cache') = KeySet(Tail(
                        [i \in 1..Len(listed) |-> [key |-> listed[i]]]))
                 /\ Len(cache) > 0 => recency[Head(listed)] = 1]_cacheVars

WitC24 ==
    /\ capacity = 3
    /\ cacheLast # <<>>
    /\ cacheLast.op = "keys"
    /\ cacheLast.result = <<3, 1, 4>>
    /\ MapKeys(cache) = <<3, 1, 4>>

\* C25 as stated: emit(event) returns true if and only if the event has at
\* least one listener registered when it is called.
CexC25 ==
    [][emitterLast'.op = "emit returns" =>
          (emitterLast'.result <=> emitterLast'.had >= 1)]_emitterVars

\* The listeners registered for event e.
ListenersOf(m, e) == IF m[e].has THEN m[e].list ELSE <<>>

\* C26 as stated: removeAllListeners(event) with an event name leaves the
\* listeners of every other event as they are, also when the named event
\* has no listeners registered.
CexC26 ==
    [][(/\ emitterLast'.op = "removeAllListeners"
        /\ emitterLast'.event # Omitted) =>
          \A e \in EventNames \ {emitterLast'.event[1]} :
              ListenersOf(events', e) = ListenersOf(events, e)]_emitterVars

\* C27 as stated: the listener of a once() registration is invoked at most
\* once over any sequence of emits, an emit from inside another listener
\* included.
CexC27 == \A w \in WrapperIds : invoked[w] <= 1

\* The event is a key of the current state's `on`, and the guard of its
\* rule, if it has one, lets it pass.
EventDefined(st, event) ==
    \/ event = "go" /\ rules[st] # "none"
    \/ event = "back" /\ st = "busy"
GuardPasses(st, ctx, event) == RuleOf(st, event).guard => GuardResult(ctx)

\* C28 as stated: can(event) returns true exactly when transition(event)
\* would succeed (false for an undefined event, true for a string rule or
\* an object rule without guard, the guard's result for a guarded rule),
\* and it never throws.
CexC28 ==
    [][machineLast'.op = "can" =>
          LET st == currentState
              event == machineLast'.event
          IN /\ machineLast'.result \in {"true", "false"}
             /\ machineLast'.result = "true"
                   <=> (EventDefined(st, event)
                          /\ GuardPasses(st, context, event))]_machineVars

\* C29 as stated: transition(event) returns false, leaves the state and
\* the context as they are and invokes no action when the event is not
\* defined for the current state or the guard of its rule returns false;
\* it returns true only when the state has moved to the rule's target.
CexC29 ==
    [][(machineLast'.op = "transition" /\ currentState \in MachineStates) =>
          LET st == currentState
              event == machineLast'.event
          IN /\ (~EventDefined(st, event) \/ ~GuardPasses(st, context, event))
                   => /\ machineLast'.result = "false"
                      /\ UNCHANGED <<currentState, context>>
                      /\ ~machineLast'.ran
             /\ machineLast'.result = "true"
                   => /\ EventDefined(st, event)
                      /\ currentState' = RuleOf(st, event).target]_machineVars

\* The observer has received complete or error, or unsubscribe() was called.
Closed == delivered.error + delivered.complete >= 1 \/ unsubscribed

\* C30: once the observer has received complete or error, or the
\* subscription was unsubscribed, it receives no further next, error or
\* complete, whatever the producer calls; complete and error are each
\* delivered at most once and never both.
ThmC30 ==
    /\ [][Closed => delivered' = delivered]_observableVars
    /\ [](delivered.error + delivered.complete <= 1)

WitC30 ==
    /\ delivered.next = 1
    /\ delivered.complete = 1
    /\ dropped = 2
    /\ produced = 4
    /\ callStack = <<>>

\* The first n of the values 1, 2, ... that the source has sent.
FirstSent(n, sent) == [i \in 1..(IF sent < n THEN sent ELSE n) |-> i]

\* C31: every subscription to source.take(n) receives exactly the first n
\* values the source emits to it (all of them if there are fewer) and is
\* completed as soon as the n-th value has been delivered, whatever other
\* subscriptions to the same take(n) observable there are. Stated for the
\* subscriptions that the source has not ended and nobody has unsubscribed.
CexC31 ==
    \A s \in TakerIds :
        (takers[s].phase # "none" /\ ~takers[s].released)
            => /\ takers[s].got = FirstSent(takeCount, takers[s].sent)
               /\ (takeCount >= 1 /\ Len(takers[s].got) = takeCount)
                      => takers[s].ended = "complete"

\* C32: fn is invoked only when `delay` has elapsed since the most recent
\* call with no call or cancel in between, at most once per burst of calls
\* and with the arguments of the most recent call; after cancel() no
\* pending invocation happens.
ThmC32 ==
    [][invocations' # invocations
          => /\ quiet = "called"
             /\ sinceCall >= delay
             /\ invocations' = Append(invocations, lastArgs)]_debounceVars

WitC32 ==
    /\ timeoutId = 3
    /\ invocations = <<"p", "q">>
    /\ lastArgs = "q"
    /\ quiet = "invoked"
    /\ delay = 2

\* The step invokes fn for a call with key k.
FnInvokedFor(k) ==
    /\ fnCalls' = fnCalls + 1
    /\ memoStack'[Len(memoStack')].key = k

\* The step is a call that returns without invoking fn.
ReturnsCached ==
    /\ memoLast' # memoLast
    /\ ~memoLast'.invoked

\* C33 as stated: the number of cached entries never exceeds maxSize, and a
\* call whose key is cached and not older than ttl (age <= ttl) returns the
\* cached value without invoking fn.
CexC33 ==
    /\ [](Len(memo) <= maxSize)
    /\ [][\A k \in MemoKeys :
             FnInvokedFor(k)
                 => ~(MapHas(memo, k)
                      /\ now - MapGet(memo, k).timestamp <= ttl)]_memoVars

\* C33, amended: the number of cached entries never exceeds maxSize, and a
\* call whose key is cached and younger than ttl (age < ttl) returns the
\* cached value without invoking fn.
ThmC33 ==
    /\ [](Len(memo) <= maxSize)
    /\ [][\A k \in MemoKeys :
             FnInvokedFor(k)
                 => ~(MapHas(memo, k)
                      /\ now - MapGet(memo, k).timestamp < ttl)]_memoVars
    /\ [][ReturnsCached
             => /\ MapHas(memo, memoLast'.key)
                /\ memoLast'.value = MapGet(memo, memoLast'.key).value
                /\ UNCHANGED <<memo, fnCalls>>]_memoVars

WitC33 ==
    /\ ~memoLast.invoked
    /\ memoLast.key # 0
    /\ MapHas(memo, memoLast.key)
    /\ now - MapGet(memo, memoLast.key).timestamp = 1
    /\ Len(memo) = maxSize
    /\ fnCalls > maxSize

\* The registration of n is a class or a factory.
Constructed(n) == registry[n].type \in {"class", "factory"}

\* n depends on itself through the declared dependencies of classes and
\* factories that have to be constructed (no singleton instance is held).
ToConstruct(n) ==
    Constructed(n) /\ ~(registry[n].singleton /\ Truthy(registry[n].instance))

DependsOn(n, m) ==
    ToConstruct(n) /\ \E i \in 1..Len(registry[n].deps) : registry[n].deps[i] = m

OnCycle(n) ==
    \/ DependsOn(n, n)
    \/ \E m \in ServiceNames \ {n} : DependsOn(n, m) /\ DependsOn(m, n)

\* C34: for a registration with singleton = true (class or factory) every
\* resolve(name) returns the same instance and the class/factory is invoked
\* at most once per registration; for a non-singleton registration every
\* resolve invokes it again; a dependency cycle makes resolve throw.
CexC34 ==
    /\ [](\A n \in ServiceNames :
             (Constructed(n) /\ registry[n].singleton)
                 => made[n] <= 1 /\ Cardinality(returned[n]) <= 1)
    /\ [][\A n \in ServiceNames :
             (/\ resolved' = resolved + 1
              /\ containerLast'.name = n
              /\ containerLast'.ok
              /\ Constructed(n)
              /\ ~registry[n].singleton)
                 => made'[n] = made[n] + 1]_containerVars
    /\ [][\A n \in ServiceNames :
             (/\ resolved' = resolved + 1
              /\ containerLast'.name = n
              /\ OnCycle(n))
                 => ~containerLast'.ok]_containerVars

\* Nothing has been dispatched yet on a queue constructed with
\* autoStart: false.
BeforeFirstDispatch == ~autoStart /\ order = <<>>

\* C35 as stated: with autoStart = false no task is dispatched and pending
\* stays 0 until start() is called for the first time, and isPaused reads
\* false during that time.
CexC35 ==
    [][(BeforeFirstDispatch /\ ~Start)
          => /\ order' = <<>>
             /\ running' = 0
             /\ ~paused']_vars

\* C35, amended: with autoStart = false no task is dispatched and pending
\* stays 0 until start() is called for the first time; isPaused reads
\* false during that time unless pause() is called.
ThmC35 ==
    /\ [](BeforeFirstDispatch => running = 0)
    /\ [][(BeforeFirstDispatch /\ ~Start)
             => /\ order' = <<>>
                /\ running' = 0
                /\ (~paused /\ ~Pause) => ~paused']_vars

WitC35 ==
    /\ BeforeFirstDispatch
    /\ onlyAdds
    /\ Len(queue) = 2
    /\ running = 0
    /\ ~paused
    /\ concurrency = 2

=============================================================================
